---- MODULE Spec2Model ----
(***************************************************************************)
(* Prompt orchestration, retrieval and chunking of the roleplay chat      *)
(* backend (back-end/app).  Text is modelled as a sequence of one-letter  *)
(* strings, so that str.replace, str.count, str.strip, str.split and      *)
(* slicing are computed letter by letter as Python computes them.          *)
(***************************************************************************)
EXTENDS Integers, Sequences, FiniteSets, TLC

VARIABLES
    ck,          \* TextChunker.chunk_text: parameters, locals and position
    db,          \* persisted rows: prompt_templates, character, conversation, messages, kb_documents
    built,       \* what the last build_messages call returned (with its inputs)
    reqs,        \* send_message requests in flight
    resp         \* the response of the last knowledge-base request

vars == <<ck, db, built, reqs, resp>>


(***************************************************************************)
(* Python text primitives                                                  *)
(***************************************************************************)

Whitespace == {" ", "\n", "\t"}

Min(a, b) == IF a <= b THEN a ELSE b

Max(a, b) == IF a >= b THEN a ELSE b

\* s[lo:hi] for 0 <= lo, hi already clamped
Cut(s, lo, hi) == IF lo >= hi THEN <<>> ELSE SubSeq(s, lo + 1, hi)

\* Python's index normalisation for a slice bound: negative counts from the end
SliceIndex(i, n) == IF i < 0 THEN Max(i + n, 0) ELSE Min(i, n)

\* text[s:e]
PySlice(t, s, e) == Cut(t, SliceIndex(s, Len(t)), SliceIndex(e, Len(t)))

\* text[s:]
PySliceFrom(t, s) == Cut(t, SliceIndex(s, Len(t)), Len(t))

\* number of leading / trailing whitespace letters
RECURSIVE LeadingWs(_)
LeadingWs(s) ==
    IF s = <<>> \/ Head(s) \notin Whitespace THEN 0 ELSE 1 + LeadingWs(Tail(s))

RECURSIVE TrailingWs(_)
TrailingWs(s) ==
    IF s = <<>> \/ s[Len(s)] \notin Whitespace THEN 0
    ELSE 1 + TrailingWs(SubSeq(s, 1, Len(s) - 1))

\* str.strip()
Strip(s) ==
    IF LeadingWs(s) = Len(s) THEN <<>>
    ELSE SubSeq(s, LeadingWs(s) + 1, Len(s) - TrailingWs(s))

\* " ".join(text.split()): runs of whitespace collapse to one space, ends trimmed
RECURSIVE JoinSplit(_, _)
JoinSplit(s, acc) ==
    IF s = <<>> THEN acc
    ELSE IF Head(s) \in Whitespace THEN
        JoinSplit(Tail(s),
                  IF acc = <<>> \/ acc[Len(acc)] = " " THEN acc ELSE Append(acc, " "))
    ELSE JoinSplit(Tail(s), Append(acc, Head(s)))

NormalizeWhitespace(text) == Strip(JoinSplit(text, <<>>))

\* whether sep occurs in s at 0-based offset i
OccursAt(s, sep, i) ==
    /\ i >= 0
    /\ i + Len(sep) <= Len(s)
    /\ \A k \in 1..Len(sep) : s[i + k] = sep[k]

\* s.rfind(sep): the highest offset at which sep occurs, -1 if none
RFind(s, sep) ==
    LET hits == {i \in 0..Len(s) : OccursAt(s, sep, i)}
    IN  IF hits = {} THEN -1 ELSE CHOOSE i \in hits : \A j \in hits : j <= i

\* s.count(sep) for a one-letter sep
CountChar(s, c) == Cardinality({i \in 1..Len(s) : s[i] = c})

(***************************************************************************)
(* services/chunker.py                                                     *)
(***************************************************************************)

\* int(n * p / q) for n, p >= 0, q > 0: chunk_size * chars_per_token truncated
IntOfProduct(n, cpt) == (n * cpt[1]) \div cpt[2]

\* TextChunker.__init__: _chunk_chars and _overlap_chars
ChunkChars(chunk_size, cpt) == IntOfProduct(chunk_size, cpt)

OverlapChars(chunk_overlap, cpt) == IntOfProduct(chunk_overlap, cpt)

SentenceSeps == << <<".", " ">>, <<"!", " ">>, <<"?", " ">>,
                   <<".", "\n">>, <<"!", "\n">>, <<"?", "\n">> >>

WordSeps == << <<" ">>, <<"\n">>, <<"\t">> >>

\* the first separator of seps, in list order, that occurs in s; 0 if none
FirstFound(s, seps) ==
    LET found == {k \in 1..Len(seps) : RFind(s, seps[k]) # -1}
    IN  IF found = {} THEN 0 ELSE CHOOSE k \in found : \A j \in found : k <= j

\* int(len(text) * 0.8)
SearchStart(text) == (Len(text) * 8) \div 10

\* TextChunker._find_break_point
FindBreakPoint(text) ==
    LET search_start == SearchStart(text)
        search_text  == PySliceFrom(text, search_start)
        ks == FirstFound(search_text, SentenceSeps)
        kw == FirstFound(search_text, WordSeps)
    IN  IF ks # 0 THEN search_start + RFind(search_text, SentenceSeps[ks]) + Len(SentenceSeps[ks])
        ELSE IF kw # 0 THEN search_start + RFind(search_text, WordSeps[kw]) + 1
        ELSE 0

\* isinstance(chunks[-1], int): chunks holds str values only
IsInstanceInt(chunk) == FALSE

\* line 84: (start <= chunks[-1]) if isinstance(chunks[-1], int) else 0
OverlapGuard(start, last_chunk) ==
    IF IsInstanceInt(last_chunk) THEN start <= last_chunk ELSE FALSE

\* a slip: the next window starts one letter after the previous one ended
NextStartSkip(end, overlap_chars, last_chunk) == end + 1

\* lines 81-85: start = end - overlap, then the guard against a large overlap
NextStart(end, overlap_chars, last_chunk) ==
    IF OverlapGuard(end - overlap_chars, last_chunk) THEN end ELSE end - overlap_chars

\* a slip: the window is cut one letter past its size and no break is sought
WindowEndLong(text, start, end0) == end0 + 1

\* lines 72-76: the end of a non-final window, moved back to a break point if any
WindowEnd(text, start, end0) ==
    LET break_point == FindBreakPoint(PySlice(text, start, end0))
    IN  IF break_point > 0 THEN start + break_point ELSE end0

\* One pass of the while loop of chunk_text from position start.
\* last: the loop breaks; win: the slice bounds actually read (normalised).
ChunkIteration(text, start, chunk_chars, overlap_chars) ==
    LET n    == Len(text)
        end0 == start + chunk_chars
    IN  IF end0 >= n
        THEN [last |-> TRUE, chunk |-> Strip(PySliceFrom(text, start)),
              end |-> end0, start |-> start,
              win |-> <<SliceIndex(start, n), n>>]
        ELSE LET end   == WindowEnd(text, start, end0)
                 chunk == Strip(PySlice(text, start, end))
             IN  [last |-> FALSE, chunk |-> chunk, end |-> end,
                  start |-> NextStart(end, overlap_chars, chunk),
                  win |-> <<SliceIndex(start, n), SliceIndex(end, n)>>]

\* a slip: the chunks are returned as cut, empty ones included
FilterEmptyKeep(chunks) == chunks

\* [c for c in chunks if c]
FilterEmpty(chunks) == SelectSeq(chunks, LAMBDA c : c # <<>>)

\* lines 62-87: the while loop run to its end, one pass per level
RECURSIVE ChunkLoop(_, _, _, _, _)
ChunkLoop(text, start, chunks, chunk_chars, overlap_chars) ==
    IF start < Len(text)
    THEN CHOOSE result \in
             {IF it.last
              THEN FilterEmpty(Append(chunks, it.chunk))
              ELSE ChunkLoop(text, it.start, Append(chunks, it.chunk),
                             chunk_chars, overlap_chars) :
                 it \in {ChunkIteration(text, start, chunk_chars, overlap_chars)}} : TRUE
    ELSE FilterEmpty(chunks)

\* TextChunker.chunk_text as a function of its input
ChunkText(raw, chunk_chars, overlap_chars) ==
    IF Strip(raw) = <<>> THEN <<>>
    ELSE LET text == NormalizeWhitespace(raw)
         IN  IF Len(text) <= chunk_chars THEN <<text>>
             ELSE ChunkLoop(text, 0, <<>>, chunk_chars, overlap_chars)

\* lines 135-142: one dict per chunk, numbered by enumerate
EnumerateChunks(chunks, filename) ==
    [i \in 1..Len(chunks) |->
        [chunk_index |-> i - 1, chunk_text |-> chunks[i],
         source_filename |-> filename]]

\* TextChunker.chunk_file_content
ChunkFileContentWith(content, filename, chunk_chars, overlap_chars) ==
    CHOOSE dicts \in {EnumerateChunks(chunks, filename) :
                         chunks \in {ChunkText(content, chunk_chars, overlap_chars)}} : TRUE

(***************************************************************************)
(* Text literals of services/prompt_orchestrator.py                        *)
(***************************************************************************)

LitCharacterDescription == <<"C", "h", "a", "r", "a", "c", "t", "e", "r", " ", "D", "e", "s", "c", "r", "i", "p", "t", "i", "o", "n", ":", " ">>

LitCharacterPersonality == <<"C", "h", "a", "r", "a", "c", "t", "e", "r", " ", "P", "e", "r", "s", "o", "n", "a", "l", "i", "t", "y", ":", " ">>

LitScene == <<"S", "c", "e", "n", "e", ":", " ">>

LitExampleDialogue == <<"E", "x", "a", "m", "p", "l", "e", " ", "D", "i", "a", "l", "o", "g", "u", "e", ":", "\n">>

LitRelevantKnowledge == <<"R", "e", "l", "e", "v", "a", "n", "t", " ", "K", "n", "o", "w", "l", "e", "d", "g", "e", ":", "\n">>

LitSourceOpen == <<"]", " ", "(", "S", "o", "u", "r", "c", "e", ":", " ">>

LitSourceClose == <<")", "\n">>

LitBlankLine == <<"\n", "\n">>

LitUnknown == <<"U", "n", "k", "n", "o", "w", "n">>

LitAssistant == <<"A", "s", "s", "i", "s", "t", "a", "n", "t">>

LitUser == <<"U", "s", "e", "r">>

\* "{{" + key + "}}"
Placeholder(key) == <<"{", "{">> \o key \o <<"}", "}">>

KeyChar == <<"c", "h", "a", "r">>

KeyUser == <<"u", "s", "e", "r">>

KeyDate == <<"d", "a", "t", "e">>

KeyTime == <<"t", "i", "m", "e">>

KeyDay == <<"d", "a", "y">>

KeyCurrentTime == <<"c", "u", "r", "r", "e", "n", "t", "_", "t", "i", "m", "e">>

\* an absent (null) text column or argument; no text holds this letter
None == <<"None">>

\* Python truthiness of an optional str
Truthy(x) == x # None /\ x # <<>>

\* a slip: str.replace(old, new, 1), the first occurrence only
ReplaceFirst(s, old, new) ==
    LET hits == {i \in 0..Len(s) : OccursAt(s, old, i)}
    IN  IF hits = {} THEN s
        ELSE LET i == CHOOSE h \in hits : \A j \in hits : h <= j
             IN  SubSeq(s, 1, i) \o new \o SubSeq(s, i + Len(old) + 1, Len(s))

\* str.replace(old, new): left to right, occurrences do not overlap
RECURSIVE Replace(_, _, _)
Replace(s, old, new) ==
    IF Len(s) < Len(old) THEN s
    ELSE IF OccursAt(s, old, 0)
         THEN new \o Replace(SubSeq(s, Len(old) + 1, Len(s)), old, new)
         ELSE <<Head(s)>> \o Replace(Tail(s), old, new)

\* str(i) for i >= 0
DigitLetters == <<"0", "1", "2", "3", "4", "5", "6", "7", "8", "9">>

RECURSIVE Str(_)
Str(i) == IF i < 10 THEN <<DigitLetters[i + 1]>>
          ELSE Str(i \div 10) \o <<DigitLetters[(i % 10) + 1]>>

Range(f) == {f[i] : i \in DOMAIN f}

(***************************************************************************)
(* models/prompt_template.py, routers/prompt_templates.py                  *)
(***************************************************************************)

GlobalKeys == <<"global_system", "real_time", "roleplay_meta", "dialogue_system">>

TemplateKeys == {"global_system", "real_time", "roleplay_meta", "dialogue_system",
                 "character_config", "character_personality", "scene",
                 "example_dialogues"}

\* DEFAULT_TEMPLATES: the shipped texts, their prose shortened to one letter
\* and their placeholders kept
DefaultPrompt(key) ==
    CASE key = "global_system"   -> <<"G">>
      [] key = "real_time"       -> <<"T">> \o Placeholder(KeyCurrentTime)
      [] key = "roleplay_meta"   -> <<"R">> \o Placeholder(KeyUser) \o <<" ">> \o Placeholder(KeyChar)
      [] key = "dialogue_system" -> <<"F">>
      [] OTHER                   -> <<"D">>

\* PromptTemplate.get_active_prompt
GetActivePrompt(row) ==
    IF Truthy(row.custom_prompt) THEN row.custom_prompt ELSE row.default_prompt

\* PromptOrchestrator._load_templates: key -> active text, for the stored rows
LoadTemplates(templates) == [k \in DOMAIN templates |-> GetActivePrompt(templates[k])]

(***************************************************************************)
(* services/prompt_orchestrator.py                                         *)
(***************************************************************************)

\* value or ""
OrEmpty(value) == IF Truthy(value) THEN value ELSE <<>>

\* PromptOrchestrator._render_template: one replace per variable, in the
\* insertion order of the dict (char, user, date, time, day)
RECURSIVE RenderFrom(_, _, _)
RenderFrom(rendered, variables, i) ==
    IF i > Len(variables) THEN rendered
    ELSE RenderFrom(Replace(rendered, Placeholder(variables[i].key),
                            OrEmpty(variables[i].value)),
                    variables, i + 1)

\* a slip: return rendered.strip()
RenderTemplateStrip(template, variables) == Strip(RenderFrom(template, variables, 1))

RenderTemplate(template, variables) == RenderFrom(template, variables, 1)

\* PromptOrchestrator._get_template_variables; character is <<>> or <<row>>
GetTemplateVariables(character, clock) ==
    << [key |-> KeyChar, value |-> IF character # <<>> THEN character[1].name ELSE LitAssistant],
       [key |-> KeyUser, value |-> LitUser],
       [key |-> KeyDate, value |-> clock.date],
       [key |-> KeyTime, value |-> clock.time],
       [key |-> KeyDay,  value |-> clock.day] >>

\* a message dict; src records which step appended it (not sent anywhere)
Entry(role, content, src) == [role |-> role, content |-> content, src |-> src]

\* lines 233-235: one global template, appended when its active text is truthy
GlobalTemplateEntry(templates, key, variables) ==
    IF key \in DOMAIN templates /\ templates[key] # <<>>
    THEN <<Entry("system", RenderTemplate(templates[key], variables), key)>>
    ELSE <<>>

\* lines 232-235: the four global templates
GlobalTemplatePrompts(templates, variables) ==
    GlobalTemplateEntry(templates, GlobalKeys[1], variables)
    \o GlobalTemplateEntry(templates, GlobalKeys[2], variables)
    \o GlobalTemplateEntry(templates, GlobalKeys[3], variables)
    \o GlobalTemplateEntry(templates, GlobalKeys[4], variables)

\* PromptOrchestrator._build_character_prompts
BuildCharacterPrompts(character, variables) ==
    IF character = <<>> THEN <<>>
    ELSE LET c == character[1]
         IN  (IF Truthy(c.description)
              THEN <<Entry("system", LitCharacterDescription \o c.description, "description")>>
              ELSE <<>>)
          \o (IF Truthy(c.personality_prompt)
              THEN <<Entry("system", LitCharacterPersonality \o c.personality_prompt, "personality")>>
              ELSE <<>>)
          \o (IF Truthy(c.scenario_prompt)
              THEN <<Entry("system", LitScene \o c.scenario_prompt, "scenario")>>
              ELSE <<>>)
          \o (IF Truthy(c.example_dialogues_prompt)
              THEN <<Entry("system",
                           LitExampleDialogue \o RenderTemplate(c.example_dialogues_prompt, variables),
                           "example_dialogues")>>
              ELSE <<>>)
          \o (IF Truthy(c.system_prompt)
              THEN <<Entry("system", c.system_prompt, "system_prompt")>>
              ELSE <<>>)

(***************************************************************************)
(* Retrieval: the pgvector query of _build_rag_prompt                      *)
(***************************************************************************)

\* Embeddings are vectors of integers whose Euclidean norm is an integer, so
\* that cosine distances are exact ratios.
Dot(a, b) == a[1] * b[1] + a[2] * b[2]

Norm(a) == CHOOSE n \in 0..(Dot(a, a)) : n * n = Dot(a, a)

\* cosine distance 1 - a.q / (|a| |q|) as a ratio <<numerator, denominator>>
CosineDistance(a, q) == <<Norm(a) * Norm(q) - Dot(a, q), Norm(a) * Norm(q)>>

RatioLeq(x, y) == x[1] * y[2] <= y[1] * x[2]

\* a distance ratio against a threshold given in tenths
AboveTenths(x, tenths) == 10 * x[1] > tenths * x[2]

DefaultSimilarityThreshold == 5     \* 0.5, in tenths

DefaultTopK == 5

\* line 166: conversation.similarity_threshold or 0.5 (tenths); read, never used.
\* A nullable number column is <<>> (null) or <<n>>.
RagThreshold(conversation) ==
    IF conversation.similarity_threshold = <<>> \/ conversation.similarity_threshold = <<0>>
    THEN DefaultSimilarityThreshold ELSE conversation.similarity_threshold[1]

\* line 167: conversation.top_k or 5
RagTopK(conversation) ==
    IF conversation.top_k = <<>> \/ conversation.top_k = <<0>>
    THEN DefaultTopK ELSE conversation.top_k[1]

\* a slip: rows of every knowledge base are candidates
IsCandidateAnyKb(doc, kb_ids) == doc.embedding # <<>>

\* lines 176-177: kb_id IN kb_ids AND embedding IS NOT NULL
IsCandidate(doc, kb_ids) == doc.kb_id \in Range(kb_ids) /\ doc.embedding # <<>>

\* a slip: descending order
OrderedByDistanceDesc(rows, q) ==
    \A i, j \in 1..Len(rows) :
        i < j => RatioLeq(CosineDistance(rows[j].embedding, q),
                          CosineDistance(rows[i].embedding, q))

\* line 178: ORDER BY embedding <=> query (rows at equal distance in any order)
OrderedByDistance(rows, q) ==
    \A i, j \in 1..Len(rows) :
        i < j => RatioLeq(CosineDistance(rows[i].embedding, q),
                          CosineDistance(rows[j].embedding, q))

\* line 179: LIMIT top_k
Limit(rows, top_k) == SubSeq(rows, 1, Min(top_k, Len(rows)))

\* lines 174-181: the row lists the query may return
QuerySimilar(kb_documents, kb_ids, query_embedding, top_k) ==
    LET cand == {i \in 1..Len(kb_documents) : IsCandidate(kb_documents[i], kb_ids)}
        n    == Cardinality(cand)
        perms == {f \in [1..n -> cand] : \A i, j \in 1..n : i # j => f[i] # f[j]}
        rows(f) == [i \in 1..n |-> kb_documents[f[i]]]
    IN  {Limit(rows(f), top_k) : f \in {g \in perms : OrderedByDistance(rows(g), query_embedding)}}

\* line 189-190: f"[{i}] (Source: {source})\n{doc.chunk_text}"
Snippet(i, doc) ==
    <<"[">> \o Str(i) \o LitSourceOpen
    \o (IF Truthy(doc.source_filename) THEN doc.source_filename ELSE LitUnknown)
    \o LitSourceClose \o doc.chunk_text

RECURSIVE JoinSnippets(_, _)
JoinSnippets(results, i) ==
    IF i > Len(results) THEN <<>>
    ELSE (IF i > 1 THEN LitBlankLine ELSE <<>>) \o Snippet(i, results[i])
         \o JoinSnippets(results, i + 1)

\* lines 183-192: None (here the empty text) for no rows, else the joined block
RagContext(results) ==
    IF results = <<>> THEN <<>> ELSE LitRelevantKnowledge \o JoinSnippets(results, 1)

\* line 246: rag_context.count("[")
SnippetCount(rag_context, results) == CountChar(rag_context, "[")

(***************************************************************************)
(* History: _get_conversation_history, Message.to_dict                     *)
(***************************************************************************)

\* rows ordered by created_at descending (created_at values are distinct)
RECURSIVE OrderByCreatedDesc(_)
OrderByCreatedDesc(rows) ==
    IF rows = {} THEN <<>>
    ELSE LET m == CHOOSE r \in rows : \A o \in rows : o.created_at <= r.created_at
         IN  <<m>> \o OrderByCreatedDesc(rows \ {m})

Reversed(s) == [i \in 1..Len(s) |-> s[Len(s) + 1 - i]]

\* line 198
InConversation(msg, conversation_id) == msg.conversation_id = conversation_id

\* a slip: the list is left newest first
HistoryOrderNewestFirst(rows) == rows

\* line 205
HistoryOrder(rows) == Reversed(rows)

\* Message.to_dict
ToDict(msg) == Entry(msg.role, msg.content, "history")

\* PromptOrchestrator._get_conversation_history
GetConversationHistory(messages, conversation_id, max_history_messages) ==
    LET rows == OrderByCreatedDesc({messages[i] : i \in
                    {k \in 1..Len(messages) : InConversation(messages[k], conversation_id)}})
        lim  == Limit(rows, max_history_messages)
        chron == HistoryOrder(lim)
    IN  [i \in 1..Len(chron) |-> ToDict(chron[i])]

(***************************************************************************)
(* build_messages                                                          *)
(***************************************************************************)

\* a slip: the knowledge block is appended after the history
AssembleRagLast(globals, chars, rag, history, user) ==
    globals \o chars \o history \o rag \o user

\* lines 232-253: the order in which the parts are appended
Assemble(globals, chars, rag, history, user) ==
    globals \o chars \o rag \o history \o user

\* PromptOrchestrator.build_messages for one list of rows returned by the
\* retrieval query (results is <<>> when the query is not run)
BuildMessages(d, call, clock, results) ==
    LET variables == GetTemplateVariables(d.character, clock)
        templates == LoadTemplates(d.templates)
        use_rag   == call.kb_ids # <<>> /\ call.query_embedding # <<>>
        rag_context == IF use_rag THEN RagContext(results) ELSE <<>>
        rag == IF rag_context # <<>> THEN <<Entry("system", rag_context, "rag")>> ELSE <<>>
    IN  [messages |-> Assemble(GlobalTemplatePrompts(templates, variables),
                               BuildCharacterPrompts(d.character, variables),
                               rag,
                               GetConversationHistory(d.messages, d.conversation.id,
                                                      call.max_history_messages),
                               <<Entry("user", call.user_input, "user")>>),
         rag_snippets_count |-> IF rag_context # <<>> THEN SnippetCount(rag_context, results) ELSE 0,
         results |-> IF use_rag THEN results ELSE <<>>]

\* the row lists build_messages may get from the query
BuildResults(d, call) ==
    IF call.kb_ids # <<>> /\ call.query_embedding # <<>>
    THEN QuerySimilar(d.kb_documents, call.kb_ids, call.query_embedding, RagTopK(d.conversation))
    ELSE {<<>>}

(***************************************************************************)
(* The database and the idle values of the processes                       *)
(***************************************************************************)

NoTemplates == <<>>

\* the table after seed_default_templates, with the given overrides
SeededTemplates(custom) ==
    [k \in TemplateKeys |->
        [default_prompt |-> DefaultPrompt(k),
         custom_prompt  |-> IF k \in DOMAIN custom THEN custom[k] ELSE None]]

Conversation(similarity_threshold, top_k) ==
    [id |-> 1, similarity_threshold |-> similarity_threshold, top_k |-> top_k,
     updated_at |-> 0]

EmptyDb == [templates |-> NoTemplates, character |-> <<>>,
            conversation |-> Conversation(<<DefaultSimilarityThreshold>>, <<DefaultTopK>>),
            messages |-> <<>>, now |-> 0, kb_documents |-> <<>>, next_doc_id |-> 1,
            knowledge_bases |-> {1, 2}, providers |-> <<>>, conversations |-> <<>>]

BuiltIdle == [pc |-> "idle", call |-> <<>>, out |-> <<>>]

NoResponse == [op |-> "none", status |-> 0]

(***************************************************************************)
(* chunk_text as a process: one action per pass of its while loop          *)
(***************************************************************************)

MaxLen == 5          \* longest input text
MaxChunkSize == 4    \* largest chunk_size (tokens)
MaxOverlap == 2      \* largest chunk_overlap (tokens)
MaxIter == 8         \* passes of the while loop followed before the model stops

Letters == {"a", " ", "."}

RECURSIVE SeqsUpTo(_, _)
SeqsUpTo(S, n) ==
    IF n = 0 THEN {<<>>}
    ELSE LET shorter == SeqsUpTo(S, n - 1)
         IN  shorter \cup {Append(s, c) : s \in {t \in shorter : Len(t) = n - 1}, c \in S}

InputTexts == SeqsUpTo(Letters, MaxLen)

\* chars_per_token as a ratio: 1.0, 1.5
CharsPerToken == {<<1, 1>>, <<3, 2>>}

CkIdle == [pc |-> "idle", raw |-> <<>>, text |-> <<>>, chunk_chars |-> 0,
           overlap_chars |-> 0, start |-> 0, chunks |-> <<>>, wins |-> <<>>,
           iters |-> 0, result |-> <<>>, filename |-> <<>>, records |-> <<>>]

\* TextChunker(chunk_size, chunk_overlap, chars_per_token).chunk_text(raw) is called
CkCall(raw, chunk_size, chunk_overlap, cpt) ==
    [CkIdle EXCEPT !.pc = "call", !.raw = raw,
                   !.chunk_chars = ChunkChars(chunk_size, cpt),
                   !.overlap_chars = OverlapChars(chunk_overlap, cpt)]

\* lines 49-60: empty input, normalisation, the single-chunk return
ChunkTextEnter ==
    /\ ck.pc = "call"
    /\ LET text == NormalizeWhitespace(ck.raw)
       IN  ck' = IF Strip(ck.raw) = <<>>
                 THEN [ck EXCEPT !.pc = "done", !.result = <<>>]
                 ELSE IF Len(text) <= ck.chunk_chars
                 THEN [ck EXCEPT !.pc = "done", !.text = text, !.result = <<text>>,
                                 !.chunks = <<text>>, !.wins = << <<0, Len(text)>> >>]
                 ELSE [ck EXCEPT !.pc = "loop", !.text = text, !.start = 0]
    /\ UNCHANGED <<db, built, reqs, resp>>

\* lines 62-85: one pass of the loop, or its exit and the return of line 87
ChunkTextLoop ==
    /\ ck.pc = "loop"
    /\ ck.iters < MaxIter
    /\ IF ck.start < Len(ck.text)
       THEN LET it == ChunkIteration(ck.text, ck.start, ck.chunk_chars, ck.overlap_chars)
                chunks == Append(ck.chunks, it.chunk)
            IN  ck' = [ck EXCEPT !.chunks = chunks,
                                 !.wins = Append(@, it.win),
                                 !.start = it.start,
                                 !.iters = @ + 1,
                                 !.pc = IF it.last THEN "done" ELSE "loop",
                                 !.result = IF it.last THEN FilterEmpty(chunks) ELSE @]
       ELSE ck' = [ck EXCEPT !.pc = "done", !.result = FilterEmpty(ck.chunks)]
    /\ UNCHANGED <<db, built, reqs, resp>>

InitChunk ==
    /\ \E raw \in InputTexts, chunk_size \in 1..MaxChunkSize,
          chunk_overlap \in 0..MaxOverlap, cpt \in CharsPerToken :
           ck = CkCall(raw, chunk_size, chunk_overlap, cpt)
    /\ db = EmptyDb
    /\ built = BuiltIdle
    /\ reqs = <<>>
    /\ resp = NoResponse

\* file names chunk_file_content is called with: a name, or the default None
\* (None is defined with the orchestrator's values below)
ChunkFilenames == {<<"a", ".", "m", "d">>, <<"None">>}

\* TextChunker.chunk_file_content, lines 133-142: chunk_text has returned and
\* its chunks are numbered; the file name takes no part before this point
ChunkFileContentReturns ==
    /\ ck.pc = "done"
    /\ \E filename \in ChunkFilenames :
           ck' = [ck EXCEPT !.pc = "records", !.filename = filename,
                            !.records = EnumerateChunks(ck.result, filename)]
    /\ UNCHANGED <<db, built, reqs, resp>>

NextChunk == ChunkTextEnter \/ ChunkTextLoop \/ ChunkFileContentReturns

SpecChunk == InitChunk /\ [][NextChunk]_vars

(***************************************************************************)
(* build_messages as a call on a database state                            *)
(***************************************************************************)

MaxDocs == 2        \* most rows of kb_documents
MaxMsgs == 4        \* most rows of messages
MaxWindow == 2      \* largest max_history_messages tried besides the default

DefaultMaxHistory == 20

\* datetime.now() formatted "%Y-%m-%d", "%H:%M", "%A"
Clocks == {[date |-> <<"2", "0", "2", "5", "-", "1", "2", "-", "1", "1">>,
            time |-> <<"2", "0", ":", "1", "3">>,
            day  |-> <<"T", "h", "u", "r", "s", "d", "a", "y">>]}

BuildCall(user_input, kb_ids, query_embedding, max_history_messages) ==
    [pc |-> "call",
     call |-> [user_input |-> user_input, kb_ids |-> kb_ids,
               query_embedding |-> query_embedding,
               max_history_messages |-> max_history_messages],
     out |-> <<>>]

\* PromptOrchestrator(db, conversation, max_history_messages).build_messages(...)
BuildMessagesCall ==
    /\ built.pc = "call"
    /\ \E clock \in Clocks, results \in BuildResults(db, built.call) :
           built' = [built EXCEPT !.pc = "done",
                                  !.out = BuildMessages(db, built.call, clock, results)]
    /\ UNCHANGED <<ck, db, reqs, resp>>

NextBuild == BuildMessagesCall

Hi == <<"h", "i">>

Message(id, conversation_id, role, content) ==
    [id |-> id, conversation_id |-> conversation_id, role |-> role,
     content |-> content, created_at |-> id, turn |-> 0]

KBDocument(id, kb_id, source_filename, chunk_index, chunk_text, embedding) ==
    [id |-> id, kb_id |-> kb_id, source_filename |-> source_filename,
     chunk_index |-> chunk_index, chunk_text |-> chunk_text, embedding |-> embedding]

FileA == <<"a", ".", "m", "d">>

QueryVector == <<1, 0>>

\* at cosine distance 0.2 and 1.0 from QueryVector
DocVectors == {<<4, 3>>, <<0, 1>>}

(* Prompt parts present or absent: templates, character fields, RAG, history *)

CustomTexts == {None, <<>>, Placeholder(KeyChar)}

FieldTexts == {None, <<>>, <<"p">>}

Characters ==
    {<<>>} \cup
    {<<[name |-> n, description |-> de, personality_prompt |-> pe,
        scenario_prompt |-> sc, example_dialogues_prompt |-> ex,
        system_prompt |-> sy, first_message |-> None]>> :
        n \in {<<>>, <<"A">>}, de \in FieldTexts, pe \in FieldTexts,
        sc \in FieldTexts, ex \in FieldTexts, sy \in FieldTexts}

TemplateTables ==
    {NoTemplates} \cup
    {SeededTemplates([k \in {"global_system", "roleplay_meta"} |->
                         IF k = "global_system" THEN c1 ELSE c2]) :
        c1 \in CustomTexts, c2 \in CustomTexts}

TwoMessages == <<Message(1, 1, "assistant", <<"1">>), Message(2, 1, "user", <<"2">>)>>

InitPrompt ==
    /\ \E t \in TemplateTables, c \in Characters, m \in {<<>>, TwoMessages},
          k \in {<<>>, <<1>>} :
         /\ db = [EmptyDb EXCEPT !.templates = t, !.character = c, !.messages = m,
                      !.kb_documents = <<KBDocument(1, 1, FileA, 0, <<"a">>, <<4, 3>>)>>]
         /\ built = BuildCall(Hi, k, QueryVector, DefaultMaxHistory)
    /\ ck = CkIdle
    /\ reqs = <<>>
    /\ resp = NoResponse

SpecPrompt == InitPrompt /\ [][NextBuild]_vars

(* Retrieval: any table of chunks, retrieval settings and request scope *)

DocRows ==
    {[kb_id |-> k, chunk_text |-> t, embedding |-> e] :
        k \in {1, 2}, t \in {<<"a">>, <<"[", "a", "]">>}, e \in {<<>>} \cup DocVectors}

DocTables ==
    LET rowSeqs == UNION {[1..n -> DocRows] : n \in 0..MaxDocs}
    IN  {[i \in 1..Len(rs) |->
            KBDocument(i, rs[i].kb_id, FileA, 0, rs[i].chunk_text, rs[i].embedding)] :
         rs \in rowSeqs}

InitRag ==
    /\ \E docs \in DocTables, k \in {<<>>, <<1>>, <<1, 2>>}, q \in {<<>>, QueryVector},
          top_k \in {<<>>, <<1>>, <<2>>}, th \in {<<>>, <<5>>} :
         /\ db = [EmptyDb EXCEPT !.kb_documents = docs,
                                 !.conversation = Conversation(th, top_k)]
         /\ built = BuildCall(Hi, k, q, DefaultMaxHistory)
    /\ ck = CkIdle
    /\ reqs = <<>>
    /\ resp = NoResponse

SpecRag == InitRag /\ [][NextBuild]_vars

(* History: any table of messages of two conversations, any window *)

MessageTables ==
    LET rowSeqs == UNION {[1..n -> {1, 2} \X {"user", "assistant"}] : n \in 0..MaxMsgs}
    IN  {[i \in 1..Len(rs) |-> Message(i, rs[i][1], rs[i][2], Str(i))] : rs \in rowSeqs}

HistoryWindows == (1..MaxWindow) \cup {DefaultMaxHistory}

InitHistory ==
    /\ \E m \in MessageTables, n \in HistoryWindows :
         /\ db = [EmptyDb EXCEPT !.messages = m]
         /\ built = BuildCall(Hi, <<>>, <<>>, n)
    /\ ck = CkIdle
    /\ reqs = <<>>
    /\ resp = NoResponse

SpecHistory == InitHistory /\ [][NextBuild]_vars

(***************************************************************************)
(* The knowledge-base document store: upload, embed-all, delete            *)
(***************************************************************************)

MaxDocId == 3       \* ids the kb_documents sequence hands out before uploads stop

\* default_chunker = TextChunker(chunk_size=500, chunk_overlap=100) cuts windows of
\* 2000 letters that overlap by 400.  The model cuts the same way on texts a few
\* letters long: its default window and overlap, and its file size limit, are
\* bounds of the model that stand for those of the program.
DefaultChunkChars == 5
DefaultOverlapChars == 1
MaxFileSize == 8

SupportedExtensions == {<<".", "t", "x", "t">>, <<".", "m", "d">>,
                        <<".", "m", "a", "r", "k", "d", "o", "w", "n">>}

UnknownTxt == <<"u", "n", "k", "n", "o", "w", "n", ".", "t", "x", "t">>

\* str.lower on the letters file names are built from
LowerChar(c) ==
    CASE c = "M" -> "m" [] c = "D" -> "d" [] c = "T" -> "t" [] c = "X" -> "x"
      [] OTHER -> c

Lower(s) == [i \in 1..Len(s) |-> LowerChar(s[i])]

\* filename.split(".")[-1]
LastSegment(s) ==
    LET dots == {i \in 1..Len(s) : s[i] = "."}
    IN  IF dots = {} THEN s
        ELSE LET last == CHOOSE i \in dots : \A j \in dots : j <= i
             IN  SubSeq(s, last + 1, Len(s))

\* line 200
Extension(filename) ==
    IF "." \in Range(filename) THEN <<".">> \o Lower(LastSegment(filename)) ELSE <<>>

\* chunk_file_content of the module: the default chunker
ChunkFileContent(content, filename) ==
    ChunkFileContentWith(content, filename, DefaultChunkChars, DefaultOverlapChars)

\* _get_active_provider: scalar_one_or_none raises on more than one row
ActiveProviders(d) == SelectSeq(d.providers, LAMBDA p : p.is_active)

\* embedding is how create_embedding ended in upload_document (kept for the
\* properties, not a field of UploadResponse)
Response(op, status, chunks_created, chunks_embedded, warning) ==
    [op |-> op, status |-> status, chunks_created |-> chunks_created,
     chunks_embedded |-> chunks_embedded, warning |-> warning, embedding |-> "none"]

Rejected(op, status) == Response(op, status, 0, 0, FALSE)

\* what create_embedding can do on n texts: one vector per item of the
\* provider's answer (the answer may be shorter than the request), an
\* LLMClientError, or an exception of another class
EmbeddingOutcomes(n) ==
    {[kind |-> "ok", embeddings |-> e] :
        e \in UNION {[1..m -> DocVectors] : m \in {k \in {n - 1, n} : k >= 0}}}
    \cup {[kind |-> "LLMClientError", embeddings |-> <<>>],
          [kind |-> "Exception", embeddings |-> <<>>]}

\* lines 255-266: the rows of one upload
CreatedDocs(d, kb_id, chunks, embeddings) ==
    [i \in 1..Len(chunks) |->
        KBDocument(d.next_doc_id + i - 1, kb_id, chunks[i].source_filename,
                   chunks[i].chunk_index, chunks[i].chunk_text,
                   IF embeddings # <<>> /\ i <= Len(embeddings)
                   THEN embeddings[i] ELSE <<>>)]

\* a slip: the test for an empty or blank text is left out
UploadRefusalNoBlank(d, kb_id, filename, file) ==
    IF kb_id \notin d.knowledge_bases THEN 404
    ELSE IF Extension(filename) \notin SupportedExtensions THEN 400
    ELSE IF Len(file.content) > MaxFileSize THEN 400
    ELSE IF ~file.utf8 THEN 400
    ELSE 0

\* lines 190-228: the status upload_document refuses the request with before
\* it chunks the text, 0 if none
UploadRefusal(d, kb_id, filename, file) ==
    IF kb_id \notin d.knowledge_bases THEN 404
    ELSE IF Extension(filename) \notin SupportedExtensions THEN 400
    ELSE IF Len(file.content) > MaxFileSize THEN 400
    ELSE IF ~file.utf8 THEN 400
    ELSE IF Strip(file.content) = <<>> THEN 400
    ELSE 0

NotCalled == [kind |-> "not called", embeddings |-> <<>>]

\* lines 230-284: upload_document from the chunking on, given the outcome of
\* create_embedding: the database and the response it leaves
UploadChunks(d, kb_id, chunks, outcome) ==
    LET embeddings == IF outcome.kind = "ok" THEN outcome.embeddings ELSE <<>>
    IN  IF chunks = <<>>
        THEN [db |-> d, resp |-> Rejected("upload", 400)]
        ELSE IF Len(ActiveProviders(d)) > 1 \/ outcome.kind = "Exception"
        THEN [db |-> d,
              resp |-> [Rejected("upload", 500) EXCEPT !.embedding = outcome.kind]]
        ELSE [db |-> [d EXCEPT !.kb_documents =
                                   @ \o CreatedDocs(d, kb_id, chunks, embeddings),
                               !.next_doc_id = @ + Len(chunks)],
              resp |-> [Response("upload", 200, Len(chunks), Len(embeddings),
                                 outcome.kind # "ok") EXCEPT !.embedding = outcome.kind]]

\* lines 310-318
DocsWithoutEmbeddings(d, kb_id) ==
    SelectSeq(d.kb_documents, LAMBDA doc : doc.kb_id = kb_id /\ doc.embedding = <<>>)

\* lines 336-338: the i-th row without an embedding takes the i-th vector
AssignEmbeddings(kb_documents, kb_id, embeddings) ==
    [j \in 1..Len(kb_documents) |->
        LET doc == kb_documents[j]
            i   == Cardinality({k \in 1..j : kb_documents[k].kb_id = kb_id
                                             /\ kb_documents[k].embedding = <<>>})
        IN  IF doc.kb_id = kb_id /\ doc.embedding = <<>> /\ i <= Len(embeddings)
            THEN [doc EXCEPT !.embedding = embeddings[i]]
            ELSE doc]

\* embed_all_documents on database d
EmbedAll(d, kb_id, outcome) ==
    LET active == ActiveProviders(d)
        docs   == DocsWithoutEmbeddings(d, kb_id)
    IN  IF kb_id \notin d.knowledge_bases
        THEN [db |-> d, resp |-> Rejected("embed_all", 404)]
        ELSE IF Len(active) > 1
        THEN [db |-> d, resp |-> Rejected("embed_all", 500)]
        ELSE IF active = <<>>
        THEN [db |-> d, resp |-> Rejected("embed_all", 400)]
        ELSE IF docs = <<>>
        THEN [db |-> d, resp |-> Response("embed_all", 200, 0, 0, FALSE)]
        ELSE IF outcome.kind # "ok"
        THEN [db |-> d,
              resp |-> [Rejected("embed_all", 500) EXCEPT !.embedding = outcome.kind]]
        ELSE [db |-> [d EXCEPT !.kb_documents =
                          AssignEmbeddings(@, kb_id, outcome.embeddings)],
              resp |-> Response("embed_all", 200, 0, Len(outcome.embeddings), FALSE)]

\* delete_kb_document on database d
DeleteDoc(d, kb_id, doc_id) ==
    IF \E i \in 1..Len(d.kb_documents) :
           d.kb_documents[i].id = doc_id /\ d.kb_documents[i].kb_id = kb_id
    THEN [db |-> [d EXCEPT !.kb_documents = SelectSeq(@, LAMBDA doc : doc.id # doc_id)],
          resp |-> Response("delete", 204, 0, 0, FALSE)]
    ELSE [db |-> d, resp |-> Rejected("delete", 404)]

KbIdsTried == {1, 2, 3}

FileB == <<"b", ".", "M", "D">>
FileExe == <<"c", ".", "e", "x", "e">>

UploadedFiles ==
    {[filename |-> FileA, content |-> <<"a", " ", "b">>, utf8 |-> TRUE],
     [filename |-> FileB, content |-> <<"a", "b", ".", " ", "c", "d", "e">>, utf8 |-> TRUE],
     [filename |-> <<>>, content |-> <<" ">>, utf8 |-> TRUE],
     [filename |-> FileExe, content |-> <<"a">>, utf8 |-> TRUE],
     [filename |-> FileA, content |-> <<"a">>, utf8 |-> FALSE],
     [filename |-> FileA, content |-> <<>>, utf8 |-> TRUE],
     [filename |-> FileA, content |-> <<"a", "a", "a", "a", "a", "a", "a", "a", "a">>,
      utf8 |-> TRUE]}

\* line 199
UploadFilename(file) == IF file.filename = <<>> THEN UnknownTxt ELSE file.filename

\* a request the handler turns away before it reads the providers
UploadRefused ==
    /\ \E kb_id \in KbIdsTried, file \in UploadedFiles :
         \E refusal \in {UploadRefusal(db, kb_id, UploadFilename(file), file)} :
            /\ refusal # 0
            /\ resp' = Rejected("upload", refusal)
    /\ built' = BuiltIdle
    /\ UNCHANGED <<ck, db, reqs>>

\* a request that reaches the chunker
UploadDocument ==
    /\ db.next_doc_id <= MaxDocId
    /\ \E file \in UploadedFiles, kb_id \in KbIdsTried :
         /\ UploadRefusal(db, kb_id, UploadFilename(file), file) = 0
         /\ \E chunks \in {ChunkFileContent(file.content, UploadFilename(file))} :
              \E outcome \in IF chunks # <<>> /\ Len(ActiveProviders(db)) = 1
                             THEN EmbeddingOutcomes(Len(chunks))
                             ELSE {NotCalled} :
                 \E r \in {UploadChunks(db, kb_id, chunks, outcome)} :
                    /\ r.db.next_doc_id <= MaxDocId + 1
                    /\ db' = r.db
                    /\ resp' = r.resp
    /\ built' = BuiltIdle
    /\ UNCHANGED <<ck, reqs>>

EmbedAllDocuments ==
    /\ \E kb_id \in KbIdsTried :
         \E outcome \in IF /\ kb_id \in db.knowledge_bases
                           /\ Len(ActiveProviders(db)) = 1
                           /\ DocsWithoutEmbeddings(db, kb_id) # <<>>
                        THEN EmbeddingOutcomes(Len(DocsWithoutEmbeddings(db, kb_id)))
                        ELSE {NotCalled} :
            \E r \in {EmbedAll(db, kb_id, outcome)} :
                db' = r.db /\ resp' = r.resp
    /\ built' = BuiltIdle
    /\ UNCHANGED <<ck, reqs>>

DeleteKbDocument ==
    /\ \E kb_id \in KbIdsTried, doc_id \in 1..MaxDocId :
            \E r \in {DeleteDoc(db, kb_id, doc_id)} :
                db' = r.db /\ resp' = r.resp
    /\ built' = BuiltIdle
    /\ UNCHANGED <<ck, reqs>>

\* a turn reaches build_messages with the conversation's kb_ids and the
\* embedding of the user's message (None when it could not be computed)
RetrievalCall ==
    /\ built.pc = "idle"
    /\ \E call \in {<<<<1>>, QueryVector>>, <<<<1, 2>>, QueryVector>>,
                     <<<<1>>, <<>>>>} :
           built' = BuildCall(Hi, call[1], call[2], DefaultMaxHistory)
    /\ UNCHANGED <<ck, db, reqs, resp>>

ActiveProvider == [id |-> 1, is_active |-> TRUE, provider_type |-> "openai"]

\* an active provider of the chat-only variant
HuggingFaceProvider == [id |-> 1, is_active |-> TRUE, provider_type |-> "huggingface"]

InitKB ==
    /\ \E providers \in {<<>>, <<ActiveProvider>>} :
           db = [EmptyDb EXCEPT !.providers = providers]
    /\ built = BuiltIdle
    /\ ck = CkIdle
    /\ reqs = <<>>
    /\ resp = NoResponse

NextKB ==
    \/ UploadRefused
    \/ UploadDocument
    \/ EmbedAllDocuments
    \/ DeleteKbDocument
    \/ RetrievalCall
    \/ BuildMessagesCall

SpecKB == InitKB /\ [][NextKB]_vars


(***************************************************************************)
(* send_message: requests on one event loop, one action per stretch of the *)
(* handler between two awaits                                              *)
(***************************************************************************)

MaxReqs == 2        \* send_message requests that arrive

Yo == <<"y", "o">>

Reply == <<"o", "k">>

\* a request that has not arrived yet; embedding is how create_embedding
\* ended for it (kept for the properties)
NewReq == [pc |-> "new", conversation_id |-> 0, content |-> <<>>, kb_ids |-> <<>>,
           assistant_created_at |-> 0, prompt |-> <<>>, rag_snippets_count |-> 0,
           status |-> 0, finished |-> 0, embedding |-> "none"]

\* a row of messages as the database stores it.  created_at is the server
\* default now(), which PostgreSQL fixes at the start of the transaction that
\* inserts the row; id is handed out at the insert.  turn is the request that
\* wrote the row (kept for the properties, not a column).
StoredMessage(d, conversation_id, role, content, created_at, turn) ==
    [id |-> Len(d.messages) + 1, conversation_id |-> conversation_id, role |-> role,
     content |-> content, created_at |-> created_at, turn |-> turn]

\* lines 264-268 on database d for request r
SendBuild(d, r, query_embedding, clock, results) ==
    BuildMessages(d, [user_input |-> r.content, kb_ids |-> r.kb_ids,
                      query_embedding |-> query_embedding,
                      max_history_messages |-> DefaultMaxHistory], clock, results)

SendBuildResults(d, r, query_embedding) ==
    BuildResults(d, [user_input |-> r.content, kb_ids |-> r.kb_ids,
                     query_embedding |-> query_embedding,
                     max_history_messages |-> DefaultMaxHistory])

\* lines 222-237: the request is refused before anything is written
SendRefusal(d, conversation_id) ==
    IF conversation_id # d.conversation.id THEN 404
    ELSE IF Len(ActiveProviders(d)) > 1 THEN 500
    ELSE IF ActiveProviders(d) = <<>> THEN 400
    ELSE 0

\* lines 222-262 up to the first await.  The lookup of the conversation opens
\* the transaction that inserts the user message; the refresh after its commit
\* opens the one that stays open until the assistant message is committed.
SendMessageArrives(i) ==
    /\ reqs[i].pc = "new"
    /\ \A j \in 1..(i - 1) : reqs[j].pc # "new"
    /\ \E conversation_id \in {1, 2}, content \in {Hi, Yo}, kb_ids \in {<<>>, <<1>>} :
         \E refusal \in {SendRefusal(db, conversation_id)} :
           IF refusal # 0
           THEN /\ reqs' = [reqs EXCEPT ![i] =
                              [@ EXCEPT !.pc = "done", !.status = refusal,
                                        !.conversation_id = conversation_id,
                                        !.content = content, !.kb_ids = kb_ids]]
                /\ db' = db
           ELSE \E d \in {[db EXCEPT
                             !.messages = Append(@, StoredMessage(db, conversation_id,
                                                    "user", content, db.now + 1, i)),
                             !.now = @ + 2]} :
                  \E r \in {[reqs[i] EXCEPT !.conversation_id = conversation_id,
                                            !.content = content, !.kb_ids = kb_ids,
                                            !.assistant_created_at = db.now + 2]} :
                    /\ db' = d
                    /\ IF kb_ids # <<>>
                       THEN reqs' = [reqs EXCEPT ![i] = [r EXCEPT !.pc = "embedding"]]
                       ELSE \E clock \in Clocks, results \in SendBuildResults(d, r, <<>>) :
                              \E b \in {SendBuild(d, r, <<>>, clock, results)} :
                                reqs' = [reqs EXCEPT ![i] =
                                           [r EXCEPT !.pc = "chat", !.prompt = b.messages,
                                                     !.rag_snippets_count = b.rag_snippets_count]]
    /\ UNCHANGED <<ck, built, resp>>

\* what create_embedding(data.content) leaves in query_embedding: the first
\* vector, None for an empty answer or an LLMClientError; any other exception
\* ends the request
QueryEmbeddingOutcomes ==
    {[kind |-> "ok", query_embedding |-> QueryVector],
     [kind |-> "ok", query_embedding |-> <<>>],
     [kind |-> "LLMClientError", query_embedding |-> <<>>],
     [kind |-> "Exception", query_embedding |-> <<>>]}

\* lines 258-268: create_embedding returns, build_messages runs, the chat
\* completion is awaited
EmbeddingReturns(i) ==
    /\ reqs[i].pc = "embedding"
    /\ \E outcome \in QueryEmbeddingOutcomes :
         IF outcome.kind = "Exception"
         THEN reqs' = [reqs EXCEPT ![i] = [@ EXCEPT !.pc = "done", !.status = 500,
                                                   !.embedding = outcome.kind]]
         ELSE \E clock \in Clocks,
                 results \in SendBuildResults(db, reqs[i], outcome.query_embedding) :
                \E b \in {SendBuild(db, reqs[i], outcome.query_embedding, clock, results)} :
                  reqs' = [reqs EXCEPT ![i] =
                             [@ EXCEPT !.pc = "chat", !.prompt = b.messages,
                                       !.rag_snippets_count = b.rag_snippets_count,
                                       !.embedding = outcome.kind]]
    /\ UNCHANGED <<ck, db, built, resp>>

\* the turns that have been answered
Answered == {j \in 1..MaxReqs : reqs[j].status = 200}

\* a slip: a failed chat completion takes the turn's user message back
ChatReturnsRollback(i) ==
    /\ reqs[i].pc = "chat"
    /\ \E outcome \in {"ok", "LLMClientError", "Exception"} :
         IF outcome = "ok"
         THEN /\ db' = [db EXCEPT
                          !.messages = Append(@, StoredMessage(db, reqs[i].conversation_id,
                                                 "assistant", Reply,
                                                 reqs[i].assistant_created_at, i)),
                          !.conversation.updated_at = reqs[i].assistant_created_at]
              /\ reqs' = [reqs EXCEPT ![i] =
                            [@ EXCEPT !.pc = "done", !.status = 200,
                                      !.finished = Cardinality(Answered) + 1]]
         ELSE /\ db' = [db EXCEPT !.messages = SelectSeq(@, LAMBDA m : m.turn # i)]
              /\ reqs' = [reqs EXCEPT ![i] =
                            [@ EXCEPT !.pc = "done",
                                      !.status = IF outcome = "LLMClientError"
                                                 THEN 502 ELSE 500]]
    /\ UNCHANGED <<ck, built, resp>>

\* lines 273-303: create_chat_completion returns
ChatReturns(i) ==
    /\ reqs[i].pc = "chat"
    /\ \E outcome \in {"ok", "LLMClientError", "Exception"} :
         IF outcome = "ok"
         THEN /\ db' = [db EXCEPT
                          !.messages = Append(@, StoredMessage(db, reqs[i].conversation_id,
                                                 "assistant", Reply,
                                                 reqs[i].assistant_created_at, i)),
                          !.conversation.updated_at = reqs[i].assistant_created_at]
              /\ reqs' = [reqs EXCEPT ![i] =
                            [@ EXCEPT !.pc = "done", !.status = 200,
                                      !.finished = Cardinality(Answered) + 1]]
         ELSE /\ db' = db
              /\ reqs' = [reqs EXCEPT ![i] =
                            [@ EXCEPT !.pc = "done",
                                      !.status = IF outcome = "LLMClientError"
                                                 THEN 502 ELSE 500]]
    /\ UNCHANGED <<ck, built, resp>>

Alice == [name |-> <<"A">>, description |-> <<"p">>, personality_prompt |-> None,
          scenario_prompt |-> None, example_dialogues_prompt |-> None,
          system_prompt |-> None, first_message |-> None]

InitSend ==
    /\ \E providers \in {<<>>, <<ActiveProvider>>, <<HuggingFaceProvider>>},
          t \in {NoTemplates, SeededTemplates(<<>>)} :
         db = [EmptyDb EXCEPT !.providers = providers, !.templates = t,
                              !.character = <<Alice>>,
                              !.kb_documents =
                                  <<KBDocument(1, 1, FileA, 0, <<"a">>, <<4, 3>>)>>]
    /\ reqs = [i \in 1..MaxReqs |-> NewReq]
    /\ ck = CkIdle
    /\ built = BuiltIdle
    /\ resp = NoResponse

NextSend ==
    \E i \in 1..MaxReqs :
        \/ SendMessageArrives(i)
        \/ EmbeddingReturns(i)
        \/ ChatReturns(i)

SpecSend == InitSend /\ [][NextSend]_vars

(***************************************************************************)
(* _render_template as a call: any template text, the variables of any     *)
(* character, and a second render of the text the first one returned       *)
(***************************************************************************)

MaxPieces == 3       \* pieces a template text is put together from

KeyFoo == <<"f", "o", "o">>

\* whole placeholders of mapped and unmapped names, plain letters, and the
\* two halves of a placeholder
TemplatePieces ==
    {<<"x">>, <<" ">>, Placeholder(KeyChar), Placeholder(KeyUser), Placeholder(KeyDay),
     Placeholder(KeyFoo), <<"{", "{", "c", "h">>, <<"a", "r", "}", "}">>}

RECURSIVE PieceTexts(_)
PieceTexts(n) ==
    IF n = 0 THEN {<<>>}
    ELSE LET shorter == PieceTexts(n - 1)
         IN  shorter \cup {t \o piece : t \in shorter, piece \in TemplatePieces}

TemplateTexts == PieceTexts(MaxPieces)

\* Character.name: any text, the empty one included (import_character)
CharacterNames ==
    {<<>>, <<"A", "l">>, Placeholder(KeyUser), Placeholder(KeyDay),
     Placeholder(KeyChar) \o <<"a">>}

NamedCharacter(name) ==
    <<[name |-> name, description |-> None, personality_prompt |-> None,
       scenario_prompt |-> None, example_dialogues_prompt |-> None,
       system_prompt |-> None, first_message |-> None]>>

RenderCallOf(template, variables) ==
    [pc |-> "render", call |-> [template |-> template, variables |-> variables],
     out |-> <<>>, again |-> <<>>]

\* self._render_template(template, variables)
RenderTemplateCall ==
    /\ built.pc = "render"
    /\ built' = [built EXCEPT !.pc = "rendered",
                              !.out = RenderTemplate(built.call.template,
                                                     built.call.variables)]
    /\ UNCHANGED <<ck, db, reqs, resp>>

\* the text returned is rendered once more with the same variables
RenderTemplateAgain ==
    /\ built.pc = "rendered"
    /\ built' = [built EXCEPT !.pc = "again",
                              !.again = RenderTemplate(built.out, built.call.variables)]
    /\ UNCHANGED <<ck, db, reqs, resp>>

InitRender ==
    /\ \E template \in TemplateTexts, clock \in Clocks,
          character \in {<<>>} \cup {NamedCharacter(n) : n \in CharacterNames} :
         /\ db = [EmptyDb EXCEPT !.character = character]
         /\ built = RenderCallOf(template, GetTemplateVariables(character, clock))
    /\ ck = CkIdle
    /\ reqs = <<>>
    /\ resp = NoResponse

NextRender == RenderTemplateCall \/ RenderTemplateAgain

SpecRender == InitRender /\ [][NextRender]_vars

(***************************************************************************)
(* routers/prompt_templates.py: seed, update and reset on the template     *)
(* table, starting from the empty table of a new database                  *)
(***************************************************************************)

\* _to_read_schema
ToReadSchema(key, row) ==
    [key |-> key, default_prompt |-> row.default_prompt,
     custom_prompt |-> row.custom_prompt, active_prompt |-> GetActivePrompt(row)]

\* the answer of a template endpoint; sent is the custom_prompt of the request
TemplateResponse(op, status, key, sent, body) ==
    [op |-> op, status |-> status, key |-> key, sent |-> sent, body |-> body]

\* a slip: seeding writes every default row anew
SeedOverwrite(templates) == SeededTemplates(<<>>)

\* seed_default_templates, lines 146-153: a row is added for each key without one
Seed(templates) ==
    [k \in TemplateKeys |->
        IF k \in DOMAIN templates THEN templates[k]
        ELSE [default_prompt |-> DefaultPrompt(k), custom_prompt |-> None]]

\* keys the update and reset endpoints are called with, one of them unknown
TemplateKeysTried == {"global_system", "roleplay_meta", "scene", "nokey"}

SeedDefaultTemplates ==
    /\ \E templates \in {Seed(db.templates)} :
         /\ db' = [db EXCEPT !.templates = templates]
         /\ resp' = TemplateResponse("seed", 200, "", None,
                                     [k \in DOMAIN templates |->
                                         ToReadSchema(k, templates[k])])
    /\ built' = BuiltIdle
    /\ UNCHANGED <<ck, reqs>>

\* lines 109-119 and 125-135: custom_prompt of the row is set, or 404
SetCustomPrompt(op, key, custom_prompt) ==
    IF key \in DOMAIN db.templates
    THEN \E row \in {[db.templates[key] EXCEPT !.custom_prompt = custom_prompt]} :
            /\ db' = [db EXCEPT !.templates[key] = row]
            /\ resp' = TemplateResponse(op, 200, key, custom_prompt,
                                        ToReadSchema(key, row))
    ELSE /\ db' = db
         /\ resp' = TemplateResponse(op, 404, key, custom_prompt, <<>>)

UpdatePromptTemplate ==
    /\ \E key \in TemplateKeysTried, custom_prompt \in CustomTexts :
           SetCustomPrompt("update", key, custom_prompt)
    /\ built' = BuiltIdle
    /\ UNCHANGED <<ck, reqs>>

ResetPromptTemplate ==
    /\ \E key \in TemplateKeysTried : SetCustomPrompt("reset", key, None)
    /\ built' = BuiltIdle
    /\ UNCHANGED <<ck, reqs>>

InitTemplates ==
    /\ db = EmptyDb
    /\ ck = CkIdle
    /\ built = BuiltIdle
    /\ reqs = <<>>
    /\ resp = NoResponse

NextTemplates == SeedDefaultTemplates \/ UpdatePromptTemplate \/ ResetPromptTemplate

SpecTemplates == InitTemplates /\ [][NextTemplates]_vars

(***************************************************************************)
(* chunk_text on windows long enough for two sentence ends to fall into    *)
(* the last fifth of a window                                              *)
(***************************************************************************)

BreakChunkSize == 16     \* chunk_size of these calls (chars_per_token 1.0)

BreakLetters == {"a", ".", "!", " "}

\* texts whose first window ends with four letters of BreakLetters in its
\* last fifth, followed by two more letters
BreakTexts ==
    {[i \in 1..((BreakChunkSize * 8) \div 10) |-> "a"] \o region \o <<"b", "b">> :
        region \in [1..4 -> BreakLetters]}

InitBreak ==
    /\ \E raw \in BreakTexts, chunk_overlap \in 0..MaxOverlap :
           ck = CkCall(raw, BreakChunkSize, chunk_overlap, <<1, 1>>)
    /\ db = EmptyDb
    /\ built = BuiltIdle
    /\ reqs = <<>>
    /\ resp = NoResponse

SpecBreak == InitBreak /\ [][NextChunk]_vars

(***************************************************************************)
(* services/llm_client.py: calls of LLMClient, one action for the POST and *)
(* one for what the provider answers                                       *)
(***************************************************************************)

MaxCalls == 2        \* calls of the client that are made

\* what the provider does with a request: status 0 stands for no answer at
\* all (httpx.RequestError); a 200 answer has a body that is the JSON the
\* method reads, JSON without the list it reads, or not JSON
UpstreamAnswers ==
    {[status |-> c, body |-> "none"] : c \in {0, 401, 429, 500}}
    \cup {[status |-> 200, body |-> b] : b \in {"good", "no_list", "not_json"}}

\* lines 93-106 and 129-147: how the call ends.  raise_for_status and the
\* transport raise httpx errors, which are wrapped; response.json() and the
\* subscripts of line 138 raise errors that are not
ClientOutcome(method, answer) ==
    IF answer.status # 200 THEN "LLMClientError"
    ELSE IF answer.body = "not_json" THEN "JSONDecodeError"
    ELSE IF method = "create_embedding" /\ answer.body = "no_list" THEN "KeyError"
    ELSE "returned"

\* client.post is awaited: the one request of the call is sent
ClientPosts ==
    /\ Len(reqs) < MaxCalls
    /\ \E method \in {"create_chat_completion", "create_embedding"} :
           reqs' = Append(reqs, [pc |-> "awaiting", method |-> method,
                                 http_requests |-> 1,
                                 answer |-> [status |-> 0, body |-> "none"],
                                 outcome |-> "none"])
    /\ UNCHANGED <<ck, db, built, resp>>

\* the provider answers, or the transport gives up, and the call ends
ClientAnswered ==
    /\ \E i \in 1..Len(reqs), answer \in UpstreamAnswers :
         /\ reqs[i].pc = "awaiting"
         /\ reqs' = [reqs EXCEPT ![i] =
                        [@ EXCEPT !.pc = "done", !.answer = answer,
                                  !.outcome = ClientOutcome(reqs[i].method, answer)]]
    /\ UNCHANGED <<ck, db, built, resp>>

InitClient ==
    /\ reqs = <<>>
    /\ db = EmptyDb
    /\ ck = CkIdle
    /\ built = BuiltIdle
    /\ resp = NoResponse

NextClient == ClientPosts \/ ClientAnswered

SpecClient == InitClient /\ [][NextClient]_vars

(***************************************************************************)
(* routers/conversations.py: create_conversation and update_conversation   *)
(* on the table of conversations (db.conversations)                        *)
(***************************************************************************)

MaxConversations == 2    \* conversations that are created

\* a field of a request body: left out, or sent as null (<<>>) or as a number
FieldInputs(numbers) ==
    {[set |-> FALSE, value |-> <<>>]}
    \cup {[set |-> TRUE, value |-> v] : v \in {<<>>} \cup {<<n>> : n \in numbers}}

\* similarity_threshold in tenths, and top_k, as they are sent
ThresholdsTried == {-1, 0, 3, 10, 11}
TopKsTried == {0, 1, 20, 21}

ConversationBodies ==
    [similarity_threshold : FieldInputs(ThresholdsTried), top_k : FieldInputs(TopKsTried)]

\* Field(..., ge=lo, le=hi) on a number
InRange(value, lo, hi) == value # <<>> /\ lo <= value[1] /\ value[1] <= hi

\* schemas/conversation.py lines 16-17: float and int fields, null is refused
ConversationCreateValid(data) ==
    /\ data.similarity_threshold.set => InRange(data.similarity_threshold.value, 0, 10)
    /\ data.top_k.set => InRange(data.top_k.value, 1, 20)

\* lines 25-26: float | None and int | None, the bounds apply to a number
ConversationUpdateValid(data) ==
    /\ data.similarity_threshold.set /\ data.similarity_threshold.value # <<>>
         => InRange(data.similarity_threshold.value, 0, 10)
    /\ data.top_k.set /\ data.top_k.value # <<>> => InRange(data.top_k.value, 1, 20)

\* POST /conversations: 422 from the schema, 404 for a missing character,
\* else the row is added with the provider that is active (lines 101-113)
CreateConversation ==
    /\ Len(db.conversations) < MaxConversations
    /\ \E data \in ConversationBodies, character_id \in {1, 2} :
         IF ~ConversationCreateValid(data)
         THEN db' = db /\ resp' = [op |-> "create_conversation", status |-> 422]
         ELSE IF character_id # 1
         THEN db' = db /\ resp' = [op |-> "create_conversation", status |-> 404]
         ELSE IF Len(ActiveProviders(db)) > 1
         THEN db' = db /\ resp' = [op |-> "create_conversation", status |-> 500]
         ELSE /\ db' = [db EXCEPT !.conversations = Append(@,
                         [id |-> Len(db.conversations) + 1,
                          character_id |-> <<character_id>>,
                          api_provider_id |-> IF ActiveProviders(db) = <<>> THEN <<>>
                                              ELSE <<ActiveProviders(db)[1].id>>,
                          similarity_threshold |->
                              IF data.similarity_threshold.set
                              THEN data.similarity_threshold.value
                              ELSE <<DefaultSimilarityThreshold>>,
                          top_k |-> IF data.top_k.set THEN data.top_k.value
                                    ELSE <<DefaultTopK>>])]
              /\ resp' = [op |-> "create_conversation", status |-> 201]
    /\ UNCHANGED <<ck, built, reqs>>

\* PUT /conversations/{id}: the fields that were sent are assigned (lines
\* 162-164, model_dump(exclude_unset=True)), null included
UpdateConversation ==
    /\ \E data \in ConversationBodies, conversation_id \in 1..(MaxConversations + 1) :
         IF ~ConversationUpdateValid(data)
         THEN db' = db /\ resp' = [op |-> "update_conversation", status |-> 422]
         ELSE IF conversation_id > Len(db.conversations)
         THEN db' = db /\ resp' = [op |-> "update_conversation", status |-> 404]
         ELSE /\ db' = [db EXCEPT !.conversations[conversation_id] =
                         [@ EXCEPT !.similarity_threshold =
                                       IF data.similarity_threshold.set
                                       THEN data.similarity_threshold.value ELSE @,
                                   !.top_k = IF data.top_k.set THEN data.top_k.value ELSE @]]
              /\ resp' = [op |-> "update_conversation", status |-> 200]
    /\ UNCHANGED <<ck, built, reqs>>

InitConversations ==
    /\ \E providers \in {<<>>, <<ActiveProvider>>} :
           db = [EmptyDb EXCEPT !.providers = providers, !.character = <<Alice>>]
    /\ reqs = <<>>
    /\ ck = CkIdle
    /\ built = BuiltIdle
    /\ resp = NoResponse

NextConversations == CreateConversation \/ UpdateConversation

SpecConversations == InitConversations /\ [][NextConversations]_vars

(***************************************************************************)
(* routers/api_providers.py on the table of providers (db.providers)       *)
(***************************************************************************)

MaxProviders == 2    \* rows the table holds at most

ProviderIdsTried == 1..(MaxProviders + 1)

ProviderResponse(op, status, provider_id) ==
    [op |-> op, status |-> status, provider_id |-> provider_id]

\* db.get(APIProvider, provider_id): the positions of the row, if it is there
ProviderRows(d, provider_id) ==
    {k \in 1..Len(d.providers) : d.providers[k].id = provider_id}

\* POST /api-providers: APIProviderCreate has no is_active field, the column
\* default False is stored; the row gets an id that is not in use
CreateApiProvider ==
    /\ Len(db.providers) < MaxProviders
    /\ \E provider_type \in {"openai", "huggingface"} :
         \E id \in {CHOOSE n \in 1..MaxProviders : ProviderRows(db, n) = {}} :
            /\ db' = [db EXCEPT !.providers = Append(@,
                         [id |-> id, is_active |-> FALSE, provider_type |-> provider_type])]
            /\ resp' = ProviderResponse("create_api_provider", 201, id)
    /\ UNCHANGED <<ck, built, reqs>>

\* PUT /api-providers/{id}: the fields of APIProviderUpdate that were sent
\* are assigned; is_active is not one of them
UpdateApiProvider ==
    /\ \E provider_id \in ProviderIdsTried,
          provider_type \in {"unset", "openai", "huggingface"} :
         IF ProviderRows(db, provider_id) = {}
         THEN db' = db /\ resp' = ProviderResponse("update_api_provider", 404, provider_id)
         ELSE /\ db' = [db EXCEPT !.providers =
                         [k \in 1..Len(db.providers) |->
                             IF db.providers[k].id = provider_id /\ provider_type # "unset"
                             THEN [db.providers[k] EXCEPT !.provider_type = provider_type]
                             ELSE db.providers[k]]]
              /\ resp' = ProviderResponse("update_api_provider", 200, provider_id)
    /\ UNCHANGED <<ck, built, reqs>>

\* DELETE /api-providers/{id}
DeleteApiProvider ==
    /\ \E provider_id \in ProviderIdsTried :
         IF ProviderRows(db, provider_id) = {}
         THEN db' = db /\ resp' = ProviderResponse("delete_api_provider", 404, provider_id)
         ELSE /\ db' = [db EXCEPT !.providers =
                         SelectSeq(@, LAMBDA row : row.id # provider_id)]
              /\ resp' = ProviderResponse("delete_api_provider", 204, provider_id)
    /\ UNCHANGED <<ck, built, reqs>>

\* POST /api-providers/{id}/activate.  The row is loaded into the session;
\* the UPDATE of line 99 is a statement on the table, it sets every row to
\* false and leaves the loaded object as it was; provider.is_active = True is
\* flushed at the commit only when it changes the loaded value, since the
\* session writes no column whose value is the one it loaded.
ActivateApiProvider ==
    /\ \E provider_id \in ProviderIdsTried :
         IF ProviderRows(db, provider_id) = {}
         THEN db' = db /\ resp' = ProviderResponse("activate_api_provider", 404, provider_id)
         ELSE \E loaded \in {db.providers[CHOOSE k \in ProviderRows(db, provider_id) : TRUE]} :
                /\ db' = [db EXCEPT !.providers =
                           [k \in 1..Len(db.providers) |->
                               [db.providers[k] EXCEPT !.is_active =
                                   db.providers[k].id = provider_id /\ ~loaded.is_active]]]
                /\ resp' = ProviderResponse("activate_api_provider", 200, provider_id)
    /\ UNCHANGED <<ck, built, reqs>>

InitProviders ==
    /\ db = EmptyDb
    /\ reqs = <<>>
    /\ ck = CkIdle
    /\ built = BuiltIdle
    /\ resp = NoResponse

NextProviders ==
    \/ CreateApiProvider
    \/ UpdateApiProvider
    \/ DeleteApiProvider
    \/ ActivateApiProvider

SpecProviders == InitProviders /\ [][NextProviders]_vars

(***************************************************************************)
(* Claims                                                                  *)
(***************************************************************************)

Out == built.out.messages

SrcRank(src) ==
    CASE src = "global_system" -> 1 [] src = "real_time" -> 2
      [] src = "roleplay_meta" -> 3 [] src = "dialogue_system" -> 4
      [] src = "description" -> 5 [] src = "personality" -> 6
      [] src = "scenario" -> 7 [] src = "example_dialogues" -> 8
      [] src = "system_prompt" -> 9 [] src = "rag" -> 10
      [] src = "history" -> 11 [] src = "user" -> 12

SrcCount(src) == Cardinality({i \in 1..Len(Out) : Out[i].src = src})

\* C1: the list returned by build_messages is, in this order, the global
\* template entries, the character entries, at most one RAG entry, the
\* history entries and exactly one final user entry: no entry of a later part
\* precedes one of an earlier part, whatever parts are present.
C1_AssemblyOrder ==
    built.pc = "done" =>
        /\ \A i, j \in 1..Len(Out) :
              i < j => /\ SrcRank(Out[i].src) <= SrcRank(Out[j].src)
                       /\ (SrcRank(Out[i].src) = SrcRank(Out[j].src) => Out[i].src = "history")
        /\ Len(Out) >= 1
        /\ Out[Len(Out)] = Entry("user", built.call.user_input, "user")
        /\ SrcCount("user") = 1
        /\ SrcCount("rag") <= 1
        /\ SrcCount("rag") = (IF built.out.results # <<>> THEN 1 ELSE 0)
        /\ SrcCount("history") =
              Cardinality({i \in 1..Len(db.messages) : db.messages[i].conversation_id = 1})
        /\ \A k \in 1..4 :
              SrcCount(GlobalKeys[k]) = (IF GlobalKeys[k] \in DOMAIN db.templates THEN 1 ELSE 0)
        /\ db.character = <<>> => \A i \in 1..Len(Out) : SrcRank(Out[i].src) \notin 5..9
        /\ db.character # <<>> =>
              /\ SrcCount("description") = (IF Truthy(db.character[1].description) THEN 1 ELSE 0)
              /\ SrcCount("personality") = (IF Truthy(db.character[1].personality_prompt) THEN 1 ELSE 0)
              /\ SrcCount("scenario") = (IF Truthy(db.character[1].scenario_prompt) THEN 1 ELSE 0)
              /\ SrcCount("example_dialogues") = (IF Truthy(db.character[1].example_dialogues_prompt) THEN 1 ELSE 0)
              /\ SrcCount("system_prompt") = (IF Truthy(db.character[1].system_prompt) THEN 1 ELSE 0)

C1_Witness ==
    /\ built.pc = "done"
    /\ Len(Out) = 13
    /\ SrcCount("rag") = 1
    /\ SrcCount("history") = 2

\* C2: build_messages never emits a system entry that comes from a template
\* or a character field and has empty content.
C2_NoEmptyContent ==
    built.pc = "done" =>
        \A i \in 1..Len(Out) : SrcRank(Out[i].src) <= 9 => Out[i].content # <<>>

\* C3: the snippet count returned by build_messages is the number of chunks
\* placed in the RAG entry, and is 0 exactly when no RAG entry is appended.
C3_SnippetCount ==
    built.pc = "done" =>
        /\ built.out.rag_snippets_count = Len(built.out.results)
        /\ (built.out.rag_snippets_count = 0 <=> SrcCount("rag") = 0)

Results == built.out.results

\* C4: whatever uploads, embed-all runs and deletions produced the document
\* store, every chunk build_messages retrieves is a stored row whose kb_id is
\* one of the turn's kb_ids and whose embedding is not null.
C4_RetrievedInScope ==
    built.pc = "done" =>
        \A i \in 1..Len(Results) :
            /\ Results[i].kb_id \in Range(built.call.kb_ids)
            /\ Results[i].embedding # <<>>
            /\ Results[i] \in Range(db.kb_documents)

\* a retrieval that returned a chunk while the store also held a row of the
\* same knowledge base without an embedding and an embedded row of another one
C4_Witness ==
    /\ built.pc = "done"
    /\ Len(Results) >= 1
    /\ \E doc \in Range(db.kb_documents) :
           doc.kb_id \in Range(built.call.kb_ids) /\ doc.embedding = <<>>
    /\ \E doc \in Range(db.kb_documents) :
           doc.kb_id \notin Range(built.call.kb_ids) /\ doc.embedding # <<>>

Distance(doc) == CosineDistance(doc.embedding, built.call.query_embedding)

\* the stored rows in the request's scope that carry a vector
ScopeRows ==
    {db.kb_documents[i] : i \in
        {k \in 1..Len(db.kb_documents) :
            /\ db.kb_documents[k].kb_id \in Range(built.call.kb_ids)
            /\ db.kb_documents[k].embedding # <<>>}}

ConfiguredTopK == IF db.conversation.top_k = <<>> THEN DefaultTopK ELSE db.conversation.top_k[1]

ConfiguredThreshold ==
    IF db.conversation.similarity_threshold = <<>> THEN DefaultSimilarityThreshold
    ELSE db.conversation.similarity_threshold[1]

\* C5: the snippets of the RAG entry are listed in non-decreasing cosine
\* distance from the query vector, they are at most top_k, and no candidate
\* left out is strictly nearer than one that is included.
C5_NearestFirstTopK ==
    built.pc = "done" =>
        /\ \A i, j \in 1..Len(Results) :
              i < j => RatioLeq(Distance(Results[i]), Distance(Results[j]))
        /\ Len(Results) <= ConfiguredTopK
        /\ Len(Results) = Min(ConfiguredTopK, Cardinality(ScopeRows))
               \/ built.call.query_embedding = <<>>
        /\ \A i, j \in 1..Len(Results) : i # j => Results[i] # Results[j]
        /\ \A d \in ScopeRows :
              d \notin Range(Results) =>
                  \A i \in 1..Len(Results) : RatioLeq(Distance(Results[i]), Distance(d))
        /\ Results # <<>> =>
              \E i \in 1..Len(Out) :
                  /\ Out[i].src = "rag"
                  /\ Out[i].content = LitRelevantKnowledge \o JoinSnippets(Results, 1)

\* two candidates at distances 0.2 and 1.0, top_k = 1: only the nearer is listed
C5_Witness ==
    /\ built.pc = "done"
    /\ db.conversation.top_k = <<1>>
    /\ Len(Results) = 1
    /\ Results[1].embedding = <<4, 3>>
    /\ \E d \in ScopeRows : d.embedding = <<0, 1>>

\* C6: no chunk whose cosine distance from the query vector is above the
\* conversation's similarity_threshold is included in the RAG entry.
C6_ThresholdApplied ==
    built.pc = "done" =>
        \A i \in 1..Len(Results) : ~AboveTenths(Distance(Results[i]), ConfiguredThreshold)

\* the conversation's messages, oldest first
OwnMessages == SelectSeq(db.messages, LAMBDA m : m.conversation_id = db.conversation.id)

HistoryPart == SelectSeq(Out, LAMBDA e : e.src = "history")

\* C7: the history part of build_messages is exactly the min(N, total) most
\* recently created messages of the conversation, oldest first, each with its
\* role and content unchanged; no message of another conversation is in it.
C7_HistoryWindow ==
    built.pc = "done" =>
        LET total == Len(OwnMessages)
            n     == Min(built.call.max_history_messages, total)
        IN  /\ Len(HistoryPart) = n
            /\ \A i \in 1..n :
                  /\ HistoryPart[i].role = OwnMessages[total - n + i].role
                  /\ HistoryPart[i].content = OwnMessages[total - n + i].content

\* more messages than the window, with another conversation's message among them
C7_Witness ==
    /\ built.pc = "done"
    /\ Len(OwnMessages) = 3
    /\ built.call.max_history_messages = 2
    /\ Len(HistoryPart) = 2
    /\ Len(db.messages) = 4
    /\ db.messages[3].conversation_id = 2

\* the messages of the conversation in stored creation order (list_messages)
StoredOrder ==
    Reversed(OrderByCreatedDesc({m \in Range(db.messages) :
                                    m.conversation_id = db.conversation.id}))

PositionOf(turn, role) ==
    CHOOSE k \in 1..Len(StoredOrder) :
        StoredOrder[k].turn = turn /\ StoredOrder[k].role = role

\* C8: however concurrent send_message calls on one conversation interleave,
\* in stored creation order each answered turn's user message is immediately
\* followed by that turn's assistant message, and the answered turns appear
\* in the order in which they completed.
C8_TurnsNotInterleaved ==
    /\ \A i \in Answered :
          PositionOf(i, "assistant") = PositionOf(i, "user") + 1
    /\ \A i, j \in Answered :
          reqs[i].finished < reqs[j].finished =>
              PositionOf(i, "user") < PositionOf(j, "user")

\* C9: every window start chosen by chunk_text is strictly greater than the
\* previous one (so the loop makes progress and chunk_text terminates).
C9_ForwardProgress ==
    [][(ck.pc = "loop" /\ ck'.pc = "loop") => ck'.start > ck.start]_vars

\* C10: chunk_text is deterministic and covers its input: when it returns,
\* a second run on the same text and parameters returns the same chunks,
\* every position of the whitespace-normalised text lies in a window that was
\* cut, each chunk is its window stripped, and every non-space letter lies in
\* a window whose chunk is returned.
C10_Coverage ==
    ck.pc = "done" /\ Strip(ck.raw) # <<>> =>
        /\ ck.result = ChunkText(ck.raw, ck.chunk_chars, ck.overlap_chars)
        /\ Len(ck.chunks) = Len(ck.wins)
        /\ \A i \in 1..Len(ck.wins) :
               ck.chunks[i] = Strip(Cut(ck.text, ck.wins[i][1], ck.wins[i][2]))
        /\ ck.result = FilterEmpty(ck.chunks)
        /\ \A p \in 1..Len(ck.text) :
               \E i \in 1..Len(ck.wins) :
                   /\ ck.wins[i][1] < p /\ p <= ck.wins[i][2]
                   /\ (ck.text[p] # " " => ck.chunks[i] # <<>>)

C10_Witness ==
    /\ ck.pc = "done"
    /\ Len(ck.wins) >= 3
    /\ \E i \in 1..(Len(ck.wins) - 1) : ck.wins[i + 1][1] < ck.wins[i][2]
    /\ \E i \in 1..Len(ck.chunks) : Len(ck.chunks[i]) < ck.wins[i][2] - ck.wins[i][1]

\* The text chunk_text works on after line 56
Normalized == NormalizeWhitespace(ck.raw)

\* C11 as stated: every chunk returned by chunk_text is at most
\* int(chunk_size * chars_per_token) letters long, and whenever the
\* whitespace-normalised text is no longer than that, exactly one chunk is
\* returned and it is the normalised text.
C11_SizeBoundAnyInput ==
    ck.pc = "done" =>
        /\ \A i \in 1..Len(ck.result) : Len(ck.result[i]) <= ck.chunk_chars
        /\ (Len(Normalized) <= ck.chunk_chars => ck.result = <<Normalized>>)

\* C11, amended: every chunk returned by chunk_text is at most
\* int(chunk_size * chars_per_token) letters long; when the input has a
\* letter that is not whitespace and its normalised text is no longer than
\* that, exactly one chunk is returned and it is the normalised text; an
\* input of whitespace only returns no chunk.
C11_SizeBound ==
    ck.pc = "done" =>
        /\ \A i \in 1..Len(ck.result) : Len(ck.result[i]) <= ck.chunk_chars
        /\ (Strip(ck.raw) # <<>> /\ Len(Normalized) <= ck.chunk_chars =>
                ck.result = <<Normalized>>)
        /\ (Strip(ck.raw) = <<>> => ck.result = <<>>)

\* a call that returns several chunks, one of them of the full size, on an
\* input that normalisation changed
C11_Witness ==
    /\ ck.pc = "done"
    /\ Len(ck.result) >= 2
    /\ \E i \in 1..Len(ck.result) : Len(ck.result[i]) = ck.chunk_chars
    /\ Normalized # ck.raw

\* C12: the records chunk_file_content returns hold no empty chunk_text,
\* their chunk_index values are 0..n-1 in list order, each carries the file
\* name given, and there is one record per chunk of chunk_text, in order.
C12_Records ==
    ck.pc = "records" =>
        /\ ck.records = ChunkFileContentWith(ck.raw, ck.filename,
                                             ck.chunk_chars, ck.overlap_chars)
        /\ Len(ck.records) = Len(ck.result)
        /\ \A i \in 1..Len(ck.records) :
               /\ ck.records[i].chunk_text # <<>>
               /\ ck.records[i].chunk_text = ck.result[i]
               /\ ck.records[i].chunk_index = i - 1
               /\ ck.records[i].source_filename = ck.filename

\* records of a call whose loop cut a window of whitespace only, which is
\* dropped, and returned at least two chunks
C12_Witness ==
    /\ ck.pc = "records"
    /\ Len(ck.records) >= 2
    /\ \E i \in 1..Len(ck.chunks) : ck.chunks[i] = <<>>

\* the last k letters of a are the first k letters of b
SharedRegion(a, b, k) ==
    /\ k <= Len(a)
    /\ k <= Len(b)
    /\ SubSeq(a, Len(a) - k + 1, Len(a)) = SubSeq(b, 1, k)

\* C13: when chunk_text returns two or more chunks and the overlap is
\* positive, each chunk ends with a non-empty region of at most
\* chunk_overlap * chars_per_token letters with which the next chunk begins.
C13_ConsecutiveOverlap ==
    ck.pc = "done" /\ Len(ck.result) >= 2 /\ ck.overlap_chars > 0 =>
        \A i \in 1..(Len(ck.result) - 1) :
            \E k \in 1..ck.overlap_chars :
                SharedRegion(ck.result[i], ck.result[i + 1], k)

\* whether sub occurs in s
Contains(s, sub) == \E i \in 0..Len(s) : OccursAt(s, sub, i)

\* whether s holds the placeholder of one of the variables
HasMappedPlaceholder(s, variables) ==
    \E i \in 1..Len(variables) : Contains(s, Placeholder(variables[i].key))

\* C14 as stated: rendering the text a render returned, with the same
\* variables, returns it unchanged, whatever the template and the character
\* name; and a text holding no placeholder of a variable is returned unchanged.
C14_RenderIdempotent ==
    /\ built.pc = "again" => built.again = built.out
    /\ built.pc \in {"rendered", "again"}
          /\ ~HasMappedPlaceholder(built.call.template, built.call.variables)
          => built.out = built.call.template

\* C14, amended: rendering again the text a render returned leaves it
\* unchanged whenever that text holds no placeholder of a variable; and a
\* template holding no placeholder of a variable is returned unchanged.
C14_RenderIdempotentResolved ==
    /\ built.pc = "again" /\ ~HasMappedPlaceholder(built.out, built.call.variables)
          => built.again = built.out
    /\ built.pc \in {"rendered", "again"}
          /\ ~HasMappedPlaceholder(built.call.template, built.call.variables)
          => built.out = built.call.template

\* a template with a placeholder was rendered to a text without one, by a
\* character with a name, and rendered again
C14_Witness ==
    /\ built.pc = "again"
    /\ HasMappedPlaceholder(built.call.template, built.call.variables)
    /\ ~HasMappedPlaceholder(built.out, built.call.variables)
    /\ Contains(built.out, <<"A", "l">>)
    /\ Contains(built.out, Placeholder(KeyFoo))

\* C15: the value put in place of a placeholder is not scanned again, so
\* the name of the character, whatever placeholder text it holds, stands
\* letter for letter in the rendered text of every template that holds
\* {{char}}.
C15_NameVerbatim ==
    built.pc = "rendered" /\ db.character # <<>>
        /\ Contains(built.call.template, Placeholder(KeyChar))
        => Contains(built.out, db.character[1].name)

\* the parts of s between the occurrences of sep, taken left to right
RECURSIVE SplitOn(_, _)
SplitOn(s, sep) ==
    LET hits == {i \in 0..Len(s) : OccursAt(s, sep, i)}
    IN  IF hits = {} THEN <<s>>
        ELSE LET i == CHOOSE h \in hits : \A j \in hits : h <= j
             IN  <<SubSeq(s, 1, i)>> \o SplitOn(SubSeq(s, i + Len(sep) + 1, Len(s)), sep)

\* the parts put together again with v between them
RECURSIVE JoinWith(_, _)
JoinWith(parts, v) ==
    IF Len(parts) = 1 THEN parts[1]
    ELSE parts[1] \o v \o JoinWith(Tail(parts), v)

\* the text after the passes for variables i.., each pass putting the value
\* (the empty text for an empty one) in place of every {{key}}
RECURSIVE PassesFrom(_, _, _)
PassesFrom(text, variables, i) ==
    IF i > Len(variables) THEN text
    ELSE PassesFrom(JoinWith(SplitOn(text, Placeholder(variables[i].key)),
                             IF variables[i].value \in {None, <<>>} THEN <<>>
                             ELSE variables[i].value),
                    variables, i + 1)

\* the number of occurrences of sub in s
Occurrences(s, sub) == Cardinality({i \in 0..Len(s) : OccursAt(s, sub, i)})

\* C16: every call of _render_template has a text to return, in which no
\* null stands for a letter; the text returned is the
\* template with, for each variable in turn, every {{key}} replaced by the
\* variable's value (nothing for an empty value); a placeholder of a name
\* that is not a variable is still there, letter for letter, as often as in
\* the template.
C16_RenderTotal ==
    /\ built.pc = "render" =>
          \E text \in {RenderTemplate(built.call.template, built.call.variables)} :
              \A i \in 1..Len(text) : text[i] # "None"
    /\ built.pc = "rendered" =>
          /\ built.out = PassesFrom(built.call.template, built.call.variables, 1)
          /\ Occurrences(built.out, Placeholder(KeyFoo))
                >= Occurrences(built.call.template, Placeholder(KeyFoo))

\* a template holding {{char}}, {{user}} and the unmapped {{foo}} rendered
\* for a character with the empty name
C16_Witness ==
    /\ built.pc = "rendered"
    /\ db.character # <<>> /\ db.character[1].name = <<>>
    /\ built.call.template =
          Placeholder(KeyChar) \o Placeholder(KeyUser) \o Placeholder(KeyFoo)
    /\ built.out = LitUser \o Placeholder(KeyFoo)

\* C17: after update_prompt_template has stored a custom_prompt that is
\* not null, the active_prompt it answers with, and the text the orchestrator
\* loads for that key, are that value; after it has stored null they are the
\* default_prompt.
C17_ActiveText ==
    resp.op = "update" /\ resp.status = 200 =>
        LET expected == IF resp.sent # None THEN resp.sent
                        ELSE db.templates[resp.key].default_prompt
        IN  /\ resp.body.active_prompt = expected
            /\ LoadTemplates(db.templates)[resp.key] = expected

\* C18: in every step of seed, update and reset no template key is removed
\* and no default_prompt of an existing row changes; a seed leaves every
\* existing row as it was and a second seed in a row changes nothing; a
\* reset changes nothing in the database but the custom_prompt of its own
\* row, which becomes null.
C18_TemplateFrame ==
    [][/\ DOMAIN db.templates \subseteq DOMAIN db'.templates
       /\ \A k \in DOMAIN db.templates :
              db'.templates[k].default_prompt = db.templates[k].default_prompt
       /\ resp'.op = "seed" =>
              /\ \A k \in DOMAIN db.templates : db'.templates[k] = db.templates[k]
              /\ DOMAIN db'.templates = TemplateKeys
              /\ (resp.op = "seed" => db' = db)
       /\ resp'.op = "reset" =>
              /\ [db' EXCEPT !.templates = db.templates] = db
              /\ \A k \in DOMAIN db.templates :
                     IF k = resp'.key
                     THEN db'.templates[k] =
                              [db.templates[k] EXCEPT !.custom_prompt = None]
                     ELSE db'.templates[k] = db.templates[k]
      ]_vars

\* seed_default_templates has answered on a table that holds overrides
C18_Witness ==
    /\ resp.op = "seed"
    /\ \E k \in DOMAIN db.templates : db.templates[k].custom_prompt = Placeholder(KeyChar)
    /\ \E k \in DOMAIN db.templates : db.templates[k].custom_prompt = <<>>

\* C19: a turn whose query embedding failed, in whichever way, goes on: the
\* chat completion is called with a prompt that holds no RAG entry and a
\* snippet count of 0, and once the completion has answered the reply of the
\* turn is stored and the request succeeds.
C19_EmbeddingFailureTolerated ==
    \A i \in 1..Len(reqs) :
        reqs[i].embedding \in {"LLMClientError", "Exception"} =>
            /\ reqs[i].prompt # <<>>
            /\ \A k \in 1..Len(reqs[i].prompt) : reqs[i].prompt[k].src # "rag"
            /\ reqs[i].rag_snippets_count = 0
            /\ reqs[i].pc = "done" /\ reqs[i].status = 200 =>
                  \E m \in 1..Len(db.messages) :
                      /\ db.messages[m].turn = i
                      /\ db.messages[m].role = "assistant"

\* the rows of knowledge base kb_id that have no embedding
NullRows(kb_documents, kb_id) ==
    {j \in 1..Len(kb_documents) :
        kb_documents[j].kb_id = kb_id /\ kb_documents[j].embedding = <<>>}

\* a step of the document store: it answers a request or writes rows
StoreStep == <<db, resp>>' # <<db, resp>>

\* C20: an upload whose embedding generation failed, or for which no
\* provider was active, answers with success, chunks_embedded 0 and a
\* warning, and has stored every chunk with a null embedding; an
\* embed_all_documents that answers with a vector for every chunk it found
\* without one leaves no such chunk in its knowledge base and leaves every
\* chunk that had an embedding as it was.
C20_UploadSurvivesEmbeddingFailure ==
    [][/\ StoreStep /\ resp'.op = "upload"
            /\ resp'.embedding \in {"LLMClientError", "Exception", "not called"} =>
              /\ resp'.status = 200
              /\ resp'.chunks_created >= 1
              /\ resp'.chunks_embedded = 0
              /\ resp'.warning
              /\ Len(db'.kb_documents) = Len(db.kb_documents) + resp'.chunks_created
              /\ \A j \in (Len(db.kb_documents) + 1)..Len(db'.kb_documents) :
                     db'.kb_documents[j].embedding = <<>>
       /\ StoreStep /\ resp'.op = "embed_all" /\ resp'.status = 200 =>
              /\ Len(db'.kb_documents) = Len(db.kb_documents)
              /\ \A j \in 1..Len(db.kb_documents) :
                     IF db.kb_documents[j].embedding # <<>>
                     THEN db'.kb_documents[j] = db.kb_documents[j]
                     ELSE db'.kb_documents[j] =
                              [db.kb_documents[j] EXCEPT
                                  !.embedding = db'.kb_documents[j].embedding]
              /\ \E kb_id \in db.knowledge_bases :
                     /\ \A j \in 1..Len(db.kb_documents) :
                            db'.kb_documents[j] # db.kb_documents[j] =>
                                db.kb_documents[j].kb_id = kb_id
                     /\ resp'.chunks_embedded >=
                            Cardinality(NullRows(db.kb_documents, kb_id)) =>
                                NullRows(db'.kb_documents, kb_id) = {}
      ]_vars

\* a file that fails a validation of upload_document
FailsValidation(file) ==
    \/ Extension(UploadFilename(file)) \notin SupportedExtensions
    \/ Len(file.content) > MaxFileSize
    \/ ~file.utf8
    \/ \A i \in 1..Len(file.content) : file.content[i] \in Whitespace

\* C21: an upload to an existing knowledge base of a file with an
\* unsupported extension, above the size limit, not UTF-8, empty or blank is
\* refused with 400 before the chunker is reached; and every upload refused
\* with 400 or 404 leaves the database as it was and reports no chunk.
C21_InvalidUploadRejected ==
    /\ [](\A kb_id \in db.knowledge_bases, file \in UploadedFiles :
              FailsValidation(file) =>
                  UploadRefusal(db, kb_id, UploadFilename(file), file) = 400)
    /\ [][StoreStep /\ resp'.op = "upload" /\ resp'.status \in {400, 404} =>
              /\ db' = db
              /\ resp'.chunks_created = 0
         ]_vars

\* an upload was refused with 400 on a store that holds chunks
C21_Witness ==
    /\ resp.op = "upload"
    /\ resp.status = 400
    /\ db.kb_documents # <<>>

\* C22: every call of create_chat_completion and create_embedding sends at
\* most one request, and a call whose request got a status other than 2xx,
\* no answer, or a 200 answer with a body the method cannot read ends with
\* LLMClientError.
C22_OneErrorKind ==
    \A i \in 1..Len(reqs) :
        /\ reqs[i].http_requests <= 1
        /\ reqs[i].pc = "done"
              /\ (reqs[i].answer.status # 200 \/ reqs[i].answer.body # "good")
              => reqs[i].outcome = "LLMClientError"

\* C23: an embed_all_documents request whose call of the provider fails with
\* LLMClientError is answered 502, and one that names a knowledge base that
\* does not exist is answered 404.
C23_UpstreamFailureIs502 ==
    resp.op = "embed_all" =>
        /\ resp.embedding = "LLMClientError" => resp.status = 502
        /\ resp.status = 404 => resp.embedding = "none"

\* C24: no send_message turn whose provider is of the chat-only variant
\* (huggingface) has a create_embedding request sent to the provider: the
\* turn never waits for the provider's answer to one.
C24_NoEmbeddingCallForChatOnly ==
    \A i \in 1..MaxReqs :
        reqs[i].pc = "embedding" =>
            \A j \in 1..Len(db.providers) :
                db.providers[j].is_active => db.providers[j].provider_type # "huggingface"

\* C25: every stored conversation has a similarity_threshold that is a number
\* in [0, 1] (0..10 tenths) and a top_k that is an integer in [1, 20].
C25_StoredParametersInRange ==
    \A i \in 1..Len(db.conversations) :
        /\ InRange(db.conversations[i].similarity_threshold, 0, 10)
        /\ InRange(db.conversations[i].top_k, 1, 20)

\* the stored chunks of one source document of a knowledge base
ChunksOf(kb_id, source_filename) ==
    SelectSeq(db.kb_documents,
              LAMBDA doc : doc.kb_id = kb_id /\ doc.source_filename = source_filename)

\* C26: the chunk_index values of the stored chunks of each source document
\* of a knowledge base are exactly 0..n-1, each once.
C26_ContiguousChunkIndices ==
    \A j \in 1..Len(db.kb_documents) :
        \E chunks \in {ChunksOf(db.kb_documents[j].kb_id, db.kb_documents[j].source_filename)} :
            \A k \in 0..(Len(chunks) - 1) :
                Cardinality({i \in 1..Len(chunks) : chunks[i].chunk_index = k}) = 1

\* C27: the history part of the message array of a turn holds no message of
\* the turn itself: it has at most as many user entries as user messages
\* were stored by other turns, so that the turn's input is there once, as
\* the last entry.
C27_UserInputOnce ==
    \A i \in 1..MaxReqs :
        reqs[i].prompt # <<>> =>
            /\ reqs[i].prompt[Len(reqs[i].prompt)].content = reqs[i].content
            /\ Cardinality({k \in 1..Len(reqs[i].prompt) :
                                /\ reqs[i].prompt[k].src = "history"
                                /\ reqs[i].prompt[k].role = "user"})
                 <= Cardinality({m \in 1..Len(db.messages) :
                                    /\ db.messages[m].role = "user"
                                    /\ db.messages[m].turn # i})

\* where the claim puts the cut of a window: after the sentence end (". ",
\* "! ", "? ") that is nearest the window's end in its last fifth, else after
\* the last whitespace there, else at the window's end
ClaimedCut(window) ==
    LET search_start == SearchStart(window)
        region == PySliceFrom(window, search_start)
        ends   == {RFind(region, SentenceSeps[k]) : k \in 1..3} \ {-1}
    IN  IF ends # {}
        THEN search_start + (CHOOSE e \in ends : \A f \in ends : f <= e) + 2
        ELSE IF RFind(region, <<" ">>) # -1
        THEN search_start + RFind(region, <<" ">>) + 1
        ELSE Len(window)

\* C28: every window of chunk_text that is not the last one ends where the
\* claim puts its cut.
C28_CutAtNearestDelimiter ==
    \A k \in 1..Len(ck.wins) :
        ck.wins[k][1] + ck.chunk_chars < Len(ck.text) =>
            ck.wins[k][2] = ck.wins[k][1]
                + ClaimedCut(PySlice(ck.text, ck.wins[k][1], ck.wins[k][1] + ck.chunk_chars))

\* the turn's chat completion was awaited and failed
FailedAtChat(i) ==
    reqs[i].pc = "done" /\ reqs[i].status \in {500, 502} /\ reqs[i].prompt # <<>>

\* C29: a chat completion that fails leaves the database as it is, with the
\* turn's user message stored and no assistant message of the turn (so
\* updated_at is not touched); and when the next message of the conversation
\* arrives while the failed turn's user message is the newest stored one, the
\* stored history ends with the two user messages.
C29_FailedTurn ==
    [][/\ \A i \in 1..MaxReqs :
            reqs[i].pc = "chat" /\ reqs'[i].pc = "done" /\ reqs'[i].status # 200 =>
                /\ db' = db
                /\ \E m \in 1..Len(db.messages) :
                       db.messages[m].turn = i /\ db.messages[m].role = "user"
                /\ \A m \in 1..Len(db.messages) :
                       db.messages[m].turn = i => db.messages[m].role # "assistant"
       /\ \A i, j \in 1..MaxReqs :
            /\ FailedAtChat(i)
            /\ reqs[j].pc = "new" /\ reqs'[j].pc \in {"embedding", "chat"}
            /\ reqs'[j].conversation_id = reqs[i].conversation_id
            /\ StoredOrder # <<>> /\ StoredOrder[Len(StoredOrder)].turn = i
            => \E so \in {StoredOrder'} :
                  /\ Len(so) = Len(StoredOrder) + 1
                  /\ so[Len(so)].role = "user" /\ so[Len(so)].turn = j
                  /\ so[Len(so) - 1].role = "user" /\ so[Len(so) - 1].turn = i
      ]_vars

\* a turn failed at the chat completion, the next one was answered: the
\* stored history is user, user, assistant and updated_at is the answer's time
C29_Witness ==
    \E i, j \in 1..MaxReqs :
        /\ FailedAtChat(i) /\ reqs[i].status = 502
        /\ reqs[j].status = 200
        /\ Len(StoredOrder) = 3
        /\ StoredOrder[1].turn = i /\ StoredOrder[1].role = "user"
        /\ StoredOrder[2].turn = j /\ StoredOrder[2].role = "user"
        /\ StoredOrder[3].role = "assistant"
        /\ db.conversation.updated_at = StoredOrder[3].created_at

\* C30: at most one provider is active, and after an activate_api_provider
\* that answered 200 the provider it named is active and no other is.
C30_OneActiveProvider ==
    /\ Len(ActiveProviders(db)) <= 1
    /\ resp.op = "activate_api_provider" /\ resp.status = 200 =>
          \A k \in 1..Len(db.providers) :
              db.providers[k].is_active <=> db.providers[k].id = resp.provider_id

====
